---- MODULE Spec2Model ----
(***************************************************************************)
(* Model of the terminology-consistency detector of                        *)
(* skill-builder/scripts/check_terminology.py.                             *)
(*                                                                         *)
(* Text is modelled with TLA+ strings: a character is a string of length   *)
(* 1, s[i] is SubSeq(s, i, i) and concatenation is \o.  Confidence values  *)
(* are integer hundredths (0.68 is 68), so that sums and the clamp are     *)
(* exact integer arithmetic.                                               *)
(***************************************************************************)
EXTENDS Integers, Sequences, FiniteSets, TLC

(***************************************************************************)
(* Characters and string helpers (Python str / re primitives).             *)
(***************************************************************************)
CharAt(s, i) == SubSeq(s, i, i)

CharsOf(s) == {CharAt(s, i) : i \in 1..Len(s)}

UpperLetters == "ABCDEFGHIJKLMNOPQRSTUVWXYZ"

LowerLetters == "abcdefghijklmnopqrstuvwxyz"

DigitChars == "0123456789"

UpperSet == CharsOf(UpperLetters)

LowerSet == CharsOf(LowerLetters)

DigitSet == CharsOf(DigitChars)

\* [a-zA-Z]
IsLetter(c) == c \in UpperSet \/ c \in LowerSet

\* [a-zA-Z0-9]
IsAlnum(c) == IsLetter(c) \/ c \in DigitSet

\* \w
IsWordChar(c) == IsAlnum(c) \/ c = "_"

\* [a-zA-Z0-9-]
IsTermChar(c) == IsAlnum(c) \/ c = "-"

\* [\w/]
IsPathChar(c) == IsWordChar(c) \/ c = "/"

\* \s
IsSpace(c) == c = " " \/ c = "\t"

\* The backtick (U+0060) cannot be written inside a TLA+ string.  The model
\* writes it as "~", a character that no regular expression of the code
\* treats specially, so every rule about "`" is a rule about BT.
BT == "~"

FENCE == BT \o BT \o BT

IsBacktick(c) == c = BT

NotSpace(c) == ~IsSpace(c)

\* the character classes that the scans below look for, by name
InClass(c, class) ==
  CASE class = "backtick" -> IsBacktick(c)
    [] class = "space" -> IsSpace(c)
    [] class = "non-space" -> NotSpace(c)
    [] class = "path" -> IsPathChar(c)
    [] class = "non-path" -> ~IsPathChar(c)
    [] class = "non-word" -> ~IsWordChar(c)
    [] class = "non-term" -> ~IsTermChar(c)
    [] class = "non-alnum" -> ~IsAlnum(c)
    [] class = "non-hash" -> c # "#"

ToLower == [c \in UpperSet |->
              CharAt(LowerLetters, CHOOSE i \in 1..26 : CharAt(UpperLetters, i) = c)]

LowerChar(c) == IF c \in UpperSet THEN ToLower[c] ELSE c

RECURSIVE lower(_)
\* str.lower()
lower(s) ==
  IF Len(s) = 0 THEN ""
  ELSE LowerChar(CharAt(s, 1)) \o lower(SubSeq(s, 2, Len(s)))

\* smallest index j >= from with s[j] in the class, or 0 when there is none
FirstIndex(s, from, class) ==
  IF \E j \in from..Len(s) : InClass(CharAt(s, j), class)
  THEN CHOOSE j \in from..Len(s) :
         /\ InClass(CharAt(s, j), class)
         /\ \A k \in from..(j - 1) : ~InClass(CharAt(s, k), class)
  ELSE 0

\* last index of the longest run of characters outside the class stop that
\* starts at from (from - 1 when the run is empty); stop is the complement
\* of the class the regular expression repeats
RunEnd(s, from, stop) ==
  LET f == FirstIndex(s, from, stop)
  IN  IF f = 0 THEN Len(s) ELSE f - 1

StartsAt(s, i, p) ==
  /\ i + Len(p) - 1 <= Len(s)
  /\ SubSeq(s, i, i + Len(p) - 1) = p

\* str.strip()
strip(s) ==
  LET a == FirstIndex(s, 1, "non-space")
  IN  IF a = 0 THEN ""
      ELSE LET b == CHOOSE j \in a..Len(s) :
                      /\ NotSpace(CharAt(s, j))
                      /\ \A k \in (j + 1)..Len(s) : IsSpace(CharAt(s, k))
           IN  SubSeq(s, a, b)

\* substring test: p in s
Contains(s, p) == \E i \in 1..(Len(s) - Len(p) + 1) : StartsAt(s, i, p)

RECURSIVE RemoveChar(_, _)
\* s.replace(c, empty) for a one-character c
RemoveChar(s, c) ==
  IF Len(s) = 0 THEN ""
  ELSE (IF CharAt(s, 1) = c THEN "" ELSE CharAt(s, 1))
         \o RemoveChar(SubSeq(s, 2, Len(s)), c)

Max2(a, b) == IF a >= b THEN a ELSE b

Min2(a, b) == IF a <= b THEN a ELSE b

SetMax(S) == CHOOSE x \in S : \A y \in S : y <= x

SetMin(S) == CHOOSE x \in S : \A y \in S : x <= y

Abs(n) == IF n < 0 THEN 0 - n ELSE n

RECURSIVE SeqSum(_)
SeqSum(q) == IF q = <<>> THEN 0 ELSE Head(q) + SeqSum(Tail(q))

\* q[:n]
Prefix(q, n) == SubSeq(q, 1, Min2(n, Len(q)))

SeqToSet(q) == {q[i] : i \in 1..Len(q)}

RECURSIVE FlattenRange(_, _, _)
FlattenRange(ss, lo, hi) ==
  IF lo > hi THEN <<>>
  ELSE IF lo = hi THEN ss[lo]
  ELSE FlattenRange(ss, lo, (lo + hi) \div 2)
         \o FlattenRange(ss, (lo + hi) \div 2 + 1, hi)

\* the concatenation of a sequence of sequences
Flatten(ss) == FlattenRange(ss, 1, Len(ss))

\* the elements of a set of integers in increasing order
Ascending(S) ==
  [p \in 1..Cardinality(S) |->
     CHOOSE x \in S : Cardinality({y \in S : y < x}) = p - 1]

\* The dict-of-lists idiom "if k not in d: d[k] = []; d[k].append(v)" over
\* the items that are wanted: the groups in order of first insertion, each
\* in insertion order; keys[i] is the key of items[i], wanted[i] tells
\* whether items[i] is inserted
GroupBy(items, keys, wanted) ==
  LET idx == {i \in 1..Len(items) : wanted[i]}
      firsts == {i \in idx : \A j \in idx : j < i => keys[j] # keys[i]}
      order == Ascending(firsts)
      members(f) == Ascending({i \in idx : keys[i] = keys[f]})
  IN  [g \in 1..Len(order) |->
         [m \in 1..Len(members(order[g])) |-> items[members(order[g])[m]]]]

\* variant: the last attempt of each key is kept instead of the first
LastPerKey(attempts) ==
  LET kept == Ascending({i \in 1..Len(attempts) :
                           \A j \in (i + 1)..Len(attempts) :
                             attempts[j].key # attempts[i].key})
  IN  [r \in 1..Len(kept) |-> attempts[kept[r]].candidate]

\* The idiom "if key not in seen: seen.add(key); out.append(c)" over a
\* sequence of attempts [key, candidate]: an attempt is kept exactly when no
\* earlier attempt has its key
FirstPerKey(attempts) ==
  LET kept == Ascending({i \in 1..Len(attempts) :
                           \A j \in 1..(i - 1) : attempts[j].key # attempts[i].key})
  IN  [r \in 1..Len(kept) |-> attempts[kept[r]].candidate]

(***************************************************************************)
(* Lookup tables.                                                          *)
(***************************************************************************)
STOPWORDS ==
  {
    "a", "an", "the", "and", "or", "but", "nor", "yet", "so", "in", "on",
    "at", "to", "for", "of", "with", "by", "from", "as", "into", "onto",
    "upon", "out", "up", "down", "about", "over", "after", "before",
    "between", "under", "above", "below", "against", "through", "during",
    "within", "without", "along", "across", "behind", "beyond", "toward",
    "towards", "among", "around", "beside", "besides", "is", "was", "are",
    "were", "been", "be", "being", "am", "have", "has", "had", "having",
    "do", "does", "did", "doing", "done", "will", "would", "could", "should",
    "may", "might", "must", "shall", "can", "need", "get", "got", "getting",
    "make", "made", "making", "let", "keep", "put", "set", "take", "took",
    "give", "gave", "it", "its", "they", "them", "their", "theirs",
    "themselves", "we", "our", "ours", "ourselves", "you", "your", "yours",
    "yourself", "he", "she", "him", "her", "his", "hers", "himself",
    "herself", "i", "me", "my", "mine", "myself", "this", "that", "these",
    "those", "all", "any", "each", "every", "both", "few", "more", "most",
    "other", "some", "such", "many", "much", "several", "enough", "either",
    "neither", "another", "only", "own", "same", "than", "too", "very",
    "just", "also", "now", "here", "there", "again", "further", "once",
    "always", "never", "often", "still", "already", "ever", "even", "quite",
    "rather", "almost", "perhaps", "maybe", "really", "actually", "simply",
    "not", "no", "yes", "if", "then", "else", "when", "where", "how", "what",
    "which", "who", "whom", "whose", "why", "whether", "see", "use", "using",
    "used", "uses", "like", "want", "wanted", "work", "works", "working",
    "run", "runs", "running", "call", "called", "true", "false", "null",
    "none", "return", "def", "class", "import", "elif", "try", "except",
    "finally", "raise", "pass", "break", "continue", "lambda", "yield",
    "assert", "global", "nonlocal", "async", "await", "del", "print",
    "const", "var", "function", "new", "typeof", "instanceof", "undefined",
    "void", "interface", "type", "enum", "export", "default", "extends",
    "implements", "private", "public", "protected", "static", "readonly",
    "abstract", "declare", "module", "namespace", "require", "func",
    "struct", "package", "main", "defer", "chan", "select", "case", "switch",
    "fallthrough", "goto", "range", "map", "slice", "mut", "impl", "trait",
    "self", "pub", "mod", "crate", "super", "unsafe", "extern", "ref",
    "match", "loop", "move", "box", "dyn", "int", "str", "bool", "float",
    "string", "number", "boolean", "array", "list", "dict", "object"
  }

\* KNOWN_ABBREVIATIONS: (abbreviation, expansion) in dict order
KNOWN_ABBREVIATIONS ==
  <<
    <<"config", "configuration">>, <<"configs", "configurations">>,
    <<"dir", "directory">>, <<"dirs", "directories">>, <<"doc", "document">>,
    <<"docs", "documents">>, <<"src", "source">>, <<"dest", "destination">>,
    <<"tmp", "temporary">>, <<"temp", "temporary">>, <<"bin", "binary">>,
    <<"lib", "library">>, <<"libs", "libraries">>, <<"pkg", "package">>,
    <<"pkgs", "packages">>, <<"mod", "module">>, <<"mods", "modules">>,
    <<"func", "function">>, <<"funcs", "functions">>, <<"fn", "function">>,
    <<"arg", "argument">>, <<"args", "arguments">>, <<"param", "parameter">>,
    <<"params", "parameters">>, <<"attr", "attribute">>,
    <<"attrs", "attributes">>, <<"prop", "property">>,
    <<"props", "properties">>, <<"var", "variable">>,
    <<"vars", "variables">>, <<"val", "value">>, <<"vals", "values">>,
    <<"obj", "object">>, <<"objs", "objects">>, <<"str", "string">>,
    <<"num", "number">>, <<"int", "integer">>, <<"bool", "boolean">>,
    <<"arr", "array">>, <<"elem", "element">>, <<"elems", "elements">>,
    <<"idx", "index">>, <<"len", "length">>, <<"ptr", "pointer">>,
    <<"ref", "reference">>, <<"refs", "references">>,
    <<"init", "initialize">>, <<"exec", "execute">>,
    <<"impl", "implementation">>, <<"eval", "evaluate">>,
    <<"calc", "calculate">>, <<"gen", "generate">>, <<"del", "delete">>,
    <<"rm", "remove">>, <<"mv", "move">>, <<"cp", "copy">>,
    <<"cmp", "compare">>, <<"concat", "concatenate">>, <<"iter", "iterate">>,
    <<"alloc", "allocate">>, <<"dealloc", "deallocate">>,
    <<"msg", "message">>, <<"msgs", "messages">>, <<"req", "request">>,
    <<"reqs", "requests">>, <<"res", "response">>, <<"resp", "response">>,
    <<"err", "error">>, <<"errs", "errors">>, <<"warn", "warning">>,
    <<"warns", "warnings">>, <<"info", "information">>,
    <<"desc", "description">>, <<"cmd", "command">>, <<"cmds", "commands">>,
    <<"env", "environment">>, <<"envs", "environments">>,
    <<"proc", "process">>, <<"procs", "processes">>, <<"sys", "system">>,
    <<"mem", "memory">>, <<"cpu", "processor">>, <<"db", "database">>,
    <<"conn", "connection">>, <<"conns", "connections">>,
    <<"sess", "session">>, <<"auth", "authentication">>,
    <<"authz", "authorization">>, <<"perms", "permissions">>,
    <<"creds", "credentials">>, <<"repo", "repository">>,
    <<"repos", "repositories">>, <<"ver", "version">>, <<"rev", "revision">>,
    <<"prev", "previous">>, <<"curr", "current">>, <<"orig", "original">>,
    <<"max", "maximum">>, <<"min", "minimum">>, <<"avg", "average">>,
    <<"cnt", "count">>, <<"qty", "quantity">>, <<"sz", "size">>,
    <<"org", "organization">>, <<"orgs", "organizations">>,
    <<"opt", "option">>, <<"opts", "options">>, <<"pref", "preference">>,
    <<"prefs", "preferences">>, <<"dev", "development">>,
    <<"prod", "production">>, <<"stg", "staging">>, <<"qa", "quality">>,
    <<"util", "utility">>, <<"utils", "utilities">>,
    <<"spec", "specification">>, <<"specs", "specifications">>,
    <<"impls", "implementations">>, <<"perf", "performance">>,
    <<"async", "asynchronous">>, <<"sync", "synchronous">>,
    <<"addr", "address">>, <<"addrs", "addresses">>, <<"url", "uniform">>,
    <<"http", "hypertext">>, <<"api", "interface">>, <<"rpc", "remote">>,
    <<"btn", "button">>, <<"btns", "buttons">>, <<"nav", "navigation">>,
    <<"img", "image">>, <<"imgs", "images">>, <<"txt", "text">>,
    <<"lbl", "label">>, <<"ctx", "context">>
  >>

\* CONFIDENCE_SCORES, in hundredths
CONFIDENCE_SCORES ==
  [case_variation |-> 68, abbreviation |-> 80, hyphenation_variant |-> 88,
   compound_variant |-> 76, stem_variation |-> 40,
   levenshtein_distance_1 |-> 48, levenshtein_distance_2 |-> 30]

\* CONTEXT_MODIFIERS, in hundredths
CONTEXT_MODIFIERS ==
  [same_paragraph |-> 10, same_section |-> 5, distant_sections |-> -5,
   frequency_imbalance_high |-> 10, frequency_imbalance_moderate |-> 5,
   one_term_in_code |-> -15, both_terms_in_code |-> -5,
   one_term_in_heading |-> -5, short_term_levenshtein |-> -10,
   first_mention_expansion |-> -20, definition_context |-> -10]

(***************************************************************************)
(* Pure helpers of the detector.                                           *)
(***************************************************************************)
IsVowel(c) == c \in {"a", "e", "i", "o", "u"}

EndsWith(s, suf) ==
  /\ Len(s) >= Len(suf)
  /\ SubSeq(s, Len(s) - Len(suf) + 1, Len(s)) = suf

\* s[:-n]
DropLast(s, n) == SubSeq(s, 1, Len(s) - n)

\* variant: the -ied and -ies rules apply to words of any length
simple_stem_any_length(w) ==
  LET word == lower(w)
      n == Len(word)
  IN  IF EndsWith(word, "ing") /\ n > 5
      THEN LET base == DropLast(word, 3)
               b == Len(base)
           IN  IF /\ b >= 2
                  /\ CharAt(base, b) = CharAt(base, b - 1)
                  /\ ~IsVowel(CharAt(base, b))
               THEN DropLast(base, 1)
               ELSE base
      ELSE IF EndsWith(word, "ied") THEN DropLast(word, 3) \o "y"
      ELSE IF EndsWith(word, "ies") THEN DropLast(word, 3) \o "y"
      ELSE IF EndsWith(word, "ed") /\ n > 4 THEN DropLast(word, 2)
      ELSE IF EndsWith(word, "s") /\ n > 3 /\ ~EndsWith(word, "ss")
      THEN DropLast(word, 1)
      ELSE word

simple_stem(w) ==
  LET word == lower(w)
      n == Len(word)
  IN  IF EndsWith(word, "ing") /\ n > 5
      THEN LET base == DropLast(word, 3)
               b == Len(base)
           IN  IF /\ b >= 2
                  /\ CharAt(base, b) = CharAt(base, b - 1)
                  /\ ~IsVowel(CharAt(base, b))
               THEN DropLast(base, 1)
               ELSE base
      ELSE IF EndsWith(word, "ied") /\ n > 4 THEN DropLast(word, 3) \o "y"
      ELSE IF EndsWith(word, "ies") /\ n > 4 THEN DropLast(word, 3) \o "y"
      ELSE IF EndsWith(word, "ed") /\ n > 4 THEN DropLast(word, 2)
      ELSE IF EndsWith(word, "s") /\ n > 3 /\ ~EndsWith(word, "ss")
      THEN DropLast(word, 1)
      ELSE word

normalize_compound(term) == RemoveChar(RemoveChar(lower(term), "-"), " ")

Min3(a, b, c) == Min2(a, Min2(b, c))

RECURSIVE LevRow(_, _, _, _)
\* the inner loop over s2: current_row grows from [i + 1] to a full row;
\* the next 1-based position j of s2 is the length of current_row
LevRow(c1, s2, previous_row, current_row) ==
  IF Len(current_row) > Len(s2) THEN current_row
  ELSE LET j == Len(current_row)
           insertions == previous_row[j + 1] + 1
           deletions == current_row[j] + 1
           substitutions == previous_row[j] + (IF c1 # CharAt(s2, j) THEN 1 ELSE 0)
       IN  LevRow(c1, s2, previous_row,
                  Append(current_row, Min3(insertions, deletions, substitutions)))

RECURSIVE LevRows(_, _, _)
\* the outer loop over s1: a finished row starts with the number of
\* characters of s1 consumed so far (current_row = [i + 1] in the code)
LevRows(s1, s2, previous_row) ==
  IF previous_row[1] = Len(s1) THEN previous_row
  ELSE LevRows(s1, s2,
               LevRow(CharAt(s1, previous_row[1] + 1), s2, previous_row,
                      <<previous_row[1] + 1>>))

\* variant: the characters are compared without regard to case
levenshtein_distance_caseless(s1, s2) ==
  LET long == IF Len(s1) < Len(s2) THEN lower(s2) ELSE lower(s1)
      short == IF Len(s1) < Len(s2) THEN lower(s1) ELSE lower(s2)
  IN  IF Len(short) = 0 THEN Len(long)
      ELSE LET last == LevRows(long, short, [k \in 1..(Len(short) + 1) |-> k - 1])
           IN  last[Len(last)]

RECURSIVE levenshtein_distance(_, _)
levenshtein_distance(s1, s2) ==
  IF Len(s1) < Len(s2) THEN levenshtein_distance(s2, s1)
  ELSE IF Len(s2) = 0 THEN Len(s1)
  ELSE LET last == LevRows(s1, s2, [k \in 1..(Len(s2) + 1) |-> k - 1])
       IN  last[Len(last)]

(***************************************************************************)
(* Context extractor.  A document is the sequence of its lines, i.e. the   *)
(* value of content.split(newline).                                        *)
(***************************************************************************)
\* line[i:]
From(line, i) == SubSeq(line, i, Len(line))

RECURSIVE SubInlineCode(_, _)
\* re.sub of an inline code span (backtick, one or more non-backticks,
\* backtick) by the empty string, for the text from position i on
SubInlineCode(line, i) ==
  LET b == FirstIndex(line, i, "backtick")
  IN  IF b = 0 THEN From(line, i)
      ELSE LET j == FirstIndex(line, b + 1, "backtick")
           IN  IF j > b + 1
               THEN SubSeq(line, i, b - 1) \o SubInlineCode(line, j + 1)
               ELSE SubSeq(line, i, b) \o SubInlineCode(line, b + 1)

\* length of the URL scheme matched by https?:// at i when at least one
\* non-space character follows it, else 0
UrlSchemeLen(line, i) ==
  IF /\ StartsAt(line, i, "https://")
     /\ i + 8 <= Len(line)
     /\ NotSpace(CharAt(line, i + 8))
  THEN 8
  ELSE IF /\ StartsAt(line, i, "http://")
          /\ i + 7 <= Len(line)
          /\ NotSpace(CharAt(line, i + 7))
       THEN 7
       ELSE 0

RECURSIVE SubUrls(_, _)
\* re.sub(r'https?://\S+', '', line), for the text from position i on
SubUrls(line, i) ==
  LET starts == {k \in i..Len(line) : UrlSchemeLen(line, k) > 0}
  IN  IF starts = {} THEN From(line, i)
      ELSE LET u == SetMin(starts)
               n == UrlSchemeLen(line, u)
           IN  SubSeq(line, i, u - 1)
                 \o SubUrls(line, RunEnd(line, u + n, "space") + 1)

RECURSIVE SubPaths(_, _)
\* re.sub(r'[\w/]+\.\w+', '', line), for the text from position i on: the
\* run of [\w/] is greedy and cannot contain the dot, so a match needs the
\* dot right after the whole run
SubPaths(line, i) ==
  LET p == FirstIndex(line, i, "path")
  IN  IF p = 0 THEN From(line, i)
      ELSE LET k == RunEnd(line, p, "non-path")
           IN  IF /\ k + 2 <= Len(line)
                  /\ CharAt(line, k + 1) = "."
                  /\ IsWordChar(CharAt(line, k + 2))
               THEN SubSeq(line, i, p - 1)
                      \o SubPaths(line, RunEnd(line, k + 2, "non-word") + 1)
               ELSE SubSeq(line, i, k) \o SubPaths(line, k + 1)

\* the three substitutions applied to a line outside code blocks
CleanLine(line) == SubPaths(SubUrls(SubInlineCode(line, 1), 1), 1)

\* line.strip().startswith of the fence marker
IsFenceLine(line) == StartsAt(strip(line), 1, FENCE)

RECURSIVE ProcessLines_dropping(_, _, _)
\* variant: fence lines and the lines of a code block are dropped instead
\* of being blanked
ProcessLines_dropping(lines, i, in_code_block) ==
  IF i > Len(lines) THEN <<>>
  ELSE IF IsFenceLine(lines[i])
       THEN ProcessLines_dropping(lines, i + 1, ~in_code_block)
       ELSE IF in_code_block
            THEN ProcessLines_dropping(lines, i + 1, in_code_block)
            ELSE <<CleanLine(lines[i])>> \o ProcessLines_dropping(lines, i + 1, in_code_block)

RECURSIVE ProcessLines(_, _, _)
\* the loop that builds processed_lines, from line i with the toggle
ProcessLines(lines, i, in_code_block) ==
  IF i > Len(lines) THEN <<>>
  ELSE IF IsFenceLine(lines[i])
       THEN <<"">> \o ProcessLines(lines, i + 1, ~in_code_block)
       ELSE IF in_code_block
            THEN <<"">> \o ProcessLines(lines, i + 1, in_code_block)
            ELSE <<CleanLine(lines[i])>> \o ProcessLines(lines, i + 1, in_code_block)

\* \b before position i, where line[i] is a word character
WordStartsAt(line, i) == i = 1 \/ ~IsWordChar(CharAt(line, i - 1))

\* \b after position e, where line[e] is a word character
WordEndsAt(line, e) == e = Len(line) \/ ~IsWordChar(CharAt(line, e + 1))

\* positions from i on where a token may start: a letter after \b
TokenStarts(line, i) ==
  {k \in i..Len(line) : IsLetter(CharAt(line, k)) /\ WordStartsAt(line, k)}

RECURSIVE FindTerms(_, _)
\* re.findall(r'\b[a-zA-Z][a-zA-Z0-9-]*[a-zA-Z0-9]\b|\b[a-zA-Z]\b', line),
\* for the text from position i on
FindTerms(line, i) ==
  IF TokenStarts(line, i) = {} THEN <<>>
  ELSE LET s == SetMin(TokenStarts(line, i))
           k == RunEnd(line, s + 1, "non-term")
           ends == {e \in (s + 1)..k :
                      IsAlnum(CharAt(line, e)) /\ WordEndsAt(line, e)}
       IN  IF ends # {}
           THEN <<SubSeq(line, s, SetMax(ends))>>
                  \o FindTerms(line, SetMax(ends) + 1)
           ELSE IF WordEndsAt(line, s)
                THEN <<CharAt(line, s)>> \o FindTerms(line, s + 1)
                ELSE FindTerms(line, s + 1)

RECURSIVE FindWords(_, _)
\* re.findall(r'\b[a-zA-Z][a-zA-Z0-9]*\b', line), from position i on
FindWords(line, i) ==
  IF TokenStarts(line, i) = {} THEN <<>>
  ELSE LET s == SetMin(TokenStarts(line, i))
           k == RunEnd(line, s, "non-alnum")
       IN  IF WordEndsAt(line, k)
           THEN <<SubSeq(line, s, k)>> \o FindWords(line, k + 1)
           ELSE FindWords(line, s + 1)

\* re.sub(r'^#+\s*', '', line)
StripHeading(line) ==
  LET h == FirstIndex(line, 1, "non-hash")
  IN  IF h = 0 THEN ""
      ELSE LET t == FirstIndex(line, h, "non-space")
           IN  IF t = 0 THEN "" ELSE SubSeq(line, t, Len(line))

NO_SECTION == "(no section)"

RECURSIVE SectionFrom(_, _)
\* the loop of get_current_section, at 1-based line i going up
SectionFrom(lines, i) ==
  IF i < 1 THEN NO_SECTION
  ELSE IF StartsAt(strip(lines[i]), 1, "#")
       THEN StripHeading(strip(lines[i]))
       ELSE SectionFrom(lines, i - 1)

\* variant: the scan starts at the line of the occurrence itself
get_current_section_inclusive(lines, line_idx) == SectionFrom(lines, line_idx + 1)

\* line_idx is the code's 0-based index: the scan starts at 0-based
\* line_idx - 1, which is 1-based line_idx
get_current_section(lines, line_idx) == SectionFrom(lines, line_idx)

\* start of the first case-insensitive match of term in line, or 0
SearchIgnoreCase(line, term) ==
  LET n == Len(term)
      hits == {i \in 1..(Len(line) - n + 1) :
                 lower(SubSeq(line, i, i + n - 1)) = lower(term)}
  IN  IF hits = {} THEN 0 ELSE SetMin(hits)

MAX_CHARS == 80

CONTEXT_WINDOW == 30

get_sentence_context(line, term) ==
  LET m == SearchIgnoreCase(line, term)
  IN  IF m = 0 THEN strip(SubSeq(line, 1, Min2(MAX_CHARS, Len(line))))
      ELSE LET start == m - 1
               end == m - 1 + Len(term)
               context_start == Max2(0, start - CONTEXT_WINDOW)
               context_end == Min2(Len(line), end + CONTEXT_WINDOW)
               context == strip(SubSeq(line, context_start + 1, context_end))
           IN  (IF context_start > 0 THEN "..." ELSE "") \o context
                 \o (IF context_end < Len(line) THEN "..." ELSE "")

\* TermOccurrence(line_number, sentence, section) for a word found on the
\* 0-based line line_idx
Occurrence(lines, line_idx, word) ==
  [line_number |-> line_idx + 1,
   sentence |-> get_sentence_context(lines[line_idx + 1], word),
   section |-> get_current_section(lines, line_idx)]

\* A Counter with its parallel occurrence dict: keys in insertion order,
\* count[i] and occs[i] belong to keys[i]
EmptyTable == [keys |-> <<>>, count |-> <<>>, occs |-> <<>>]

HasKey(table, k) == \E i \in 1..Len(table.keys) : table.keys[i] = k

KeyIndex(table, k) == CHOOSE i \in 1..Len(table.keys) : table.keys[i] = k

CountOf(table, k) == table.count[KeyIndex(table, k)]

\* dict.get(k, [])
OccsOf(table, k) == IF HasKey(table, k) THEN table.occs[KeyIndex(table, k)] ELSE <<>>

\* variant: every word is kept
KeepWord_every(word) == Len(word) > 0

\* lower not in STOPWORDS and len(lower) > 2
\* variant: the stopword test on the word as written, not lowercased
KeepWord_case_sensitive(word) == word \notin STOPWORDS /\ Len(word) > 2

KeepWord(word) == lower(word) \notin STOPWORDS /\ Len(lower(word)) > 2

\* the (word, line_idx) pairs that the two nested loops visit, in order:
\* blank processed lines are skipped, words[i] are the words of line i
Visits(processed, words) ==
  Flatten([i \in 1..Len(processed) |->
             IF strip(processed[i]) = "" THEN <<>>
             ELSE [w \in 1..Len(words[i]) |->
                     [word |-> words[i][w], line_idx |-> i - 1]]])

\* variant: a word is counted once per line, however often it is there
BuildTable_once_per_line(lines, visits) ==
  LET groups == GroupBy(visits, [i \in 1..Len(visits) |-> visits[i].word],
                        [i \in 1..Len(visits) |-> TRUE])
      linesOf(g) == {groups[g][m].line_idx : m \in 1..Len(groups[g])}
  IN  [keys |-> [g \in 1..Len(groups) |-> groups[g][1].word],
       count |-> [g \in 1..Len(groups) |-> Cardinality(linesOf(g))],
       occs |-> [g \in 1..Len(groups) |->
                   [m \in 1..Len(groups[g]) |->
                      Occurrence(lines, groups[g][m].line_idx, groups[g][m].word)]]]

\* counts[word] += 1 and occurrences[word].append(occurrence) for every
\* kept visit, in order: a key per distinct word in order of first
\* appearance, its count, and its occurrences in order
BuildTable(lines, visits) ==
  LET groups == GroupBy(visits, [i \in 1..Len(visits) |-> visits[i].word],
                        [i \in 1..Len(visits) |-> TRUE])
  IN  [keys |-> [g \in 1..Len(groups) |-> groups[g][1].word],
       count |-> [g \in 1..Len(groups) |-> Len(groups[g])],
       occs |-> [g \in 1..Len(groups) |->
                   [m \in 1..Len(groups[g]) |->
                      Occurrence(lines, groups[g][m].line_idx, groups[g][m].word)]]]

\* [w for w in words if w.lower() not in STOPWORDS and len(w) > 2]
KeptWords(words) == SelectSeq(words, KeepWord)

TermsOfLine(line) == KeptWords(FindTerms(line, 1))

extract_terms_with_context(lines) ==
  LET processed == ProcessLines(lines, 1, FALSE)
      words == [i \in 1..Len(processed) |-> TermsOfLine(processed[i])]
  IN  BuildTable(lines, Visits(processed, words))

\* the bigrams of one processed line, in order
BigramsOfLine(line) ==
  LET words == KeptWords(FindWords(line, 1))
  IN  [i \in 1..(Len(words) - 1) |-> words[i] \o " " \o words[i + 1]]

extract_bigrams_with_context(lines) ==
  LET processed == ProcessLines(lines, 1, FALSE)
      words == [i \in 1..Len(processed) |-> BigramsOfLine(processed[i])]
  IN  BuildTable(lines, Visits(processed, words))

(***************************************************************************)
(* Candidate generators.  A term table is a record [keys, count, occs] as  *)
(* built by the extractor; a variant is a (term, count) pair.  An          *)
(* Optional[str] is a sequence of length 0 (None) or 1.                    *)
(***************************************************************************)
None == <<>>

Some(x) == <<x>>

\* a > b for two tuples of numbers of the same length, as Python compares
\* tuples
TupleGreater(a, b) ==
  \E k \in 1..Len(a) : a[k] > b[k] /\ \A j \in 1..(k - 1) : a[j] = b[j]

\* list.sort(key=..., reverse=True): a stable sort; keys[i] is the key of
\* items[i], a tuple of numbers; equal keys keep their order
StableSortDesc(items, keys) ==
  LET n == Len(items)
      rank(i) == 1 + Cardinality({j \in 1..n :
                        \/ TupleGreater(keys[j], keys[i])
                        \/ (~TupleGreater(keys[i], keys[j]) /\ j < i)})
  IN  [p \in 1..n |-> items[CHOOSE i \in 1..n : rank(i) = p]]

\* variants.sort(key=lambda x: x[1], reverse=True)
SortByCount(variants) ==
  StableSortDesc(variants, [i \in 1..Len(variants) |-> <<variants[i].count>>])

\* term_counts.items()
Items(table) ==
  [i \in 1..Len(table.keys) |-> [term |-> table.keys[i], count |-> table.count[i]]]

\* x in list
InList(x, list) == \E i \in 1..Len(list) : list[i] = x

\* CandidatePair(...) as the generators build it; the three scoring fields
\* keep the dataclass defaults
\* variant: all the occurrences of the two terms are stored
Candidate_uncapped(t1, c1, o1, t2, c2, o2, reason, suggestion) ==
  [term1 |-> t1, term1_count |-> c1, term1_occurrences |-> o1,
   term2 |-> t2, term2_count |-> c2, term2_occurrences |-> o2,
   reason |-> reason, suggestion |-> suggestion,
   base_confidence |-> 0, adjusted_confidence |-> 0, modifiers_applied |-> <<>>]

Candidate(t1, c1, o1, t2, c2, o2, reason, suggestion) ==
  [term1 |-> t1, term1_count |-> c1, term1_occurrences |-> Prefix(o1, 3),
   term2 |-> t2, term2_count |-> c2, term2_occurrences |-> Prefix(o2, 3),
   reason |-> reason, suggestion |-> suggestion,
   base_confidence |-> 0, adjusted_confidence |-> 0, modifiers_applied |-> <<>>]

\* tuple(sorted([a.lower(), b.lower()])): two such tuples are equal exactly
\* when the two-element multisets are, i.e. when these sets are equal
PairKey(a, b) == {lower(a), lower(b)}

NotIgnored(ignore_terms, term) == ~InList(lower(term), ignore_terms)

\* pairs (most_common, v) for the variants after the first
PairsWithMostCommon(table, variants, reason, suggest) ==
  LET most_common == variants[1]
  IN  [k \in 1..(Len(variants) - 1) |->
         Candidate(most_common.term, most_common.count, OccsOf(table, most_common.term),
                   variants[k + 1].term, variants[k + 1].count,
                   OccsOf(table, variants[k + 1].term),
                   reason,
                   IF suggest THEN Some(most_common.term) ELSE None)]

\* variant: the variants of a group are not sorted by count, the first
\* inserted form is taken as the most common
find_case_variations_unsorted(table, ignore_terms) ==
  LET keyOf(v) == lower(v.term)
      wanted(v) == NotIgnored(ignore_terms, v.term)
      items == Items(table)
      by_lower == GroupBy(items, [i \in 1..Len(items) |-> keyOf(items[i])],
                         [i \in 1..Len(items) |-> wanted(items[i])])
  IN  Flatten([g \in 1..Len(by_lower) |->
        IF Len(by_lower[g]) > 1
        THEN PairsWithMostCommon(table, by_lower[g], "case_variation", TRUE)
        ELSE <<>>])

find_case_variations(table, ignore_terms) ==
  LET keyOf(v) == lower(v.term)
      wanted(v) == NotIgnored(ignore_terms, v.term)
      items == Items(table)
      by_lower == GroupBy(items, [i \in 1..Len(items) |-> keyOf(items[i])],
                         [i \in 1..Len(items) |-> wanted(items[i])])
  IN  Flatten([g \in 1..Len(by_lower) |->
        IF Len(by_lower[g]) > 1
        THEN PairsWithMostCommon(table, SortByCount(by_lower[g]),
                                 "case_variation", TRUE)
        ELSE <<>>])

\* {**a, **b} for dicts given as sequences of (key, value): the keys of a
\* keep their place and take the value of b, new keys of b follow
MergeDicts(a, b) ==
  LET valueIn(d, k) == d[CHOOSE i \in 1..Len(d) : d[i][1] = k][2]
      hasKey(d, k) == \E i \in 1..Len(d) : d[i][1] = k
      kept == [i \in 1..Len(a) |->
                 IF hasKey(b, a[i][1]) THEN <<a[i][1], valueIn(b, a[i][1])>> ELSE a[i]]
      fresh == Ascending({i \in 1..Len(b) : ~hasKey(a, b[i][1])})
  IN  kept \o [i \in 1..Len(fresh) |-> b[fresh[i]]]

\* terms = {t.lower(): (t, c)}: the last key with that lowercase form wins
HasLower(table, l) == \E i \in 1..Len(table.keys) : lower(table.keys[i]) = l

TermByLower(table, l) ==
  LET i == SetMax({k \in 1..Len(table.keys) : lower(table.keys[k]) = l})
  IN  [term |-> table.keys[i], count |-> table.count[i]]

\* variant: the comparison of the two counts is turned around
find_abbreviations_fewer(table, config) ==
  LET all_abbreviations == MergeDicts(KNOWN_ABBREVIATIONS, config.domain_abbreviations)
      entry(e) ==
        LET abbrev_lower == lower(all_abbreviations[e][1])
            expansion_lower == lower(all_abbreviations[e][2])
        IN  IF HasLower(table, abbrev_lower) /\ HasLower(table, expansion_lower)
            THEN LET ab == TermByLower(table, abbrev_lower)
                     ex == TermByLower(table, expansion_lower)
                 IN  <<Candidate(ab.term, ab.count, OccsOf(table, ab.term),
                                 ex.term, ex.count, OccsOf(table, ex.term),
                                 "abbreviation",
                                 Some(IF ab.count < ex.count THEN ab.term ELSE ex.term))>>
            ELSE <<>>
  IN  Flatten([e \in 1..Len(all_abbreviations) |-> entry(e)])

find_abbreviations(table, config) ==
  LET all_abbreviations == MergeDicts(KNOWN_ABBREVIATIONS, config.domain_abbreviations)
      entry(e) ==
        LET abbrev_lower == lower(all_abbreviations[e][1])
            expansion_lower == lower(all_abbreviations[e][2])
        IN  IF HasLower(table, abbrev_lower) /\ HasLower(table, expansion_lower)
            THEN LET ab == TermByLower(table, abbrev_lower)
                     ex == TermByLower(table, expansion_lower)
                 IN  <<Candidate(ab.term, ab.count, OccsOf(table, ab.term),
                                 ex.term, ex.count, OccsOf(table, ex.term),
                                 "abbreviation",
                                 Some(IF ab.count > ex.count THEN ab.term ELSE ex.term))>>
            ELSE <<>>
  IN  Flatten([e \in 1..Len(all_abbreviations) |-> entry(e)])

\* l = list(lowers) for a set of two strings: the iteration order of a set
\* of strings depends on the hash seed of the process, so both orders are
\* possible; hash_order selects one
ListOfTwo(lowers, hash_order) ==
  LET a == CHOOSE x \in lowers : TRUE
      b == CHOOSE x \in lowers : x # a
  IN  IF hash_order THEN <<a, b>> ELSE <<b, a>>

\* the plural test on the two-element set of lowercase forms
PluralPair(l) == l[1] \o "s" = l[2] \/ l[2] \o "s" = l[1]

\* variant: the inner loop keeps the singular/plural pairs
StemPairs_with_plurals(table, variants) ==
  LET most_common == variants[1]
  IN  [r \in 1..(Len(variants) - 1) |->
         Candidate(most_common.term, most_common.count, OccsOf(table, most_common.term),
                   variants[r + 1].term, variants[r + 1].count,
                   OccsOf(table, variants[r + 1].term),
                   "stem_variation", None)]

\* the inner loop of find_stem_variations over variants[1:]
StemPairs(table, variants) ==
  LET most_common == variants[1]
      rest == Ascending({k \in 2..Len(variants) :
                 /\ lower(variants[k].term) # lower(most_common.term) \o "s"
                 /\ lower(most_common.term) # lower(variants[k].term) \o "s"})
  IN  [r \in 1..Len(rest) |->
         Candidate(most_common.term, most_common.count, OccsOf(table, most_common.term),
                   variants[rest[r]].term, variants[rest[r]].count,
                   OccsOf(table, variants[rest[r]].term),
                   "stem_variation", None)]

\* variant: the variants of a stem are held in a set, so the order of equal
\* counts follows the iteration order of the set
find_stem_variations_set_order(table, ignore_terms, hash_order) ==
  LET keyOf(v) == simple_stem(lower(v.term))
      wanted(v) == NotIgnored(ignore_terms, v.term) /\ Len(simple_stem(lower(v.term))) >= 3
      items == Items(table)
      by_stem == GroupBy(items, [i \in 1..Len(items) |-> keyOf(items[i])],
                         [i \in 1..Len(items) |-> wanted(items[i])])
      iterate(group) ==
        IF hash_order THEN group
        ELSE [k \in 1..Len(group) |-> group[Len(group) + 1 - k]]
      group(g) ==
        IF Len(by_stem[g]) > 1
        THEN LET variants == SortByCount(iterate(by_stem[g]))
                 lowers == {lower(variants[k].term) : k \in 1..Len(variants)}
             IN  IF Cardinality(lowers) = 2 /\ PluralPair(ListOfTwo(lowers, hash_order))
                 THEN <<>>
                 ELSE StemPairs(table, variants)
        ELSE <<>>
  IN  Flatten([g \in 1..Len(by_stem) |-> group(g)])

find_stem_variations(table, ignore_terms, hash_order) ==
  LET keyOf(v) == simple_stem(lower(v.term))
      wanted(v) == NotIgnored(ignore_terms, v.term) /\ Len(simple_stem(lower(v.term))) >= 3
      items == Items(table)
      by_stem == GroupBy(items, [i \in 1..Len(items) |-> keyOf(items[i])],
                         [i \in 1..Len(items) |-> wanted(items[i])])
      group(g) ==
        IF Len(by_stem[g]) > 1
        THEN LET variants == SortByCount(by_stem[g])
                 lowers == {lower(variants[k].term) : k \in 1..Len(variants)}
             IN  IF Cardinality(lowers) = 2 /\ PluralPair(ListOfTwo(lowers, hash_order))
                 THEN <<>>
                 ELSE StemPairs(table, variants)
        ELSE <<>>
  IN  Flatten([g \in 1..Len(by_stem) |-> group(g)])

HasHyphen(term) == Contains(term, "-")

RECURSIVE SelectVariants(_, _)
\* [(t, c) for t, c in variants if ('-' in t) = hyphenated]
SelectVariants(variants, hyphenated) ==
  IF variants = <<>> THEN <<>>
  ELSE (IF HasHyphen(Head(variants).term) = hyphenated THEN <<Head(variants)>> ELSE <<>>)
         \o SelectVariants(Tail(variants), hyphenated)

\* the inner loop of find_hyphenation_variants over all_variants[1:]
HyphenPairs(table, all_variants) ==
  LET most_common == all_variants[1]
      rest == Ascending({k \in 2..Len(all_variants) :
                 lower(all_variants[k].term) # lower(most_common.term)})
  IN  [r \in 1..Len(rest) |->
         Candidate(most_common.term, most_common.count, OccsOf(table, most_common.term),
                   all_variants[rest[r]].term, all_variants[rest[r]].count,
                   OccsOf(table, all_variants[rest[r]].term),
                   "hyphenation_variant", Some(most_common.term))]

\* variant: the variants of a group are not sorted by count
find_hyphenation_variants_unsorted(table, ignore_terms) ==
  LET keyOf(v) == normalize_compound(v.term)
      wanted(v) == /\ NotIgnored(ignore_terms, v.term)
                   /\ (HasHyphen(v.term) \/ Len(v.term) > 6)
      items == Items(table)
      by_normalized == GroupBy(items, [i \in 1..Len(items) |-> keyOf(items[i])],
                         [i \in 1..Len(items) |-> wanted(items[i])])
      group(g) ==
        LET hyphenated == SelectVariants(by_normalized[g], TRUE)
            non_hyphenated == SelectVariants(by_normalized[g], FALSE)
        IN  IF hyphenated # <<>> /\ non_hyphenated # <<>>
            THEN HyphenPairs(table, hyphenated \o non_hyphenated)
            ELSE <<>>
  IN  Flatten([g \in 1..Len(by_normalized) |-> group(g)])

find_hyphenation_variants(table, ignore_terms) ==
  LET keyOf(v) == normalize_compound(v.term)
      wanted(v) == /\ NotIgnored(ignore_terms, v.term)
                   /\ (HasHyphen(v.term) \/ Len(v.term) > 6)
      items == Items(table)
      by_normalized == GroupBy(items, [i \in 1..Len(items) |-> keyOf(items[i])],
                         [i \in 1..Len(items) |-> wanted(items[i])])
      group(g) ==
        LET hyphenated == SelectVariants(by_normalized[g], TRUE)
            non_hyphenated == SelectVariants(by_normalized[g], FALSE)
        IN  IF hyphenated # <<>> /\ non_hyphenated # <<>>
            THEN HyphenPairs(table, SortByCount(hyphenated \o non_hyphenated))
            ELSE <<>>
  IN  Flatten([g \in 1..Len(by_normalized) |-> group(g)])

RECURSIVE Split(_, _)
\* str.split() of the text from position i on: the maximal runs of
\* non-space characters
Split(str, i) ==
  LET a == FirstIndex(str, i, "non-space")
  IN  IF a = 0 THEN <<>>
      ELSE LET b == RunEnd(str, a, "space")
           IN  <<SubSeq(str, a, b)>> \o Split(str, b + 1)

\* the first key of the table equal to form case-insensitively, as a
\* found_forms entry (form, count, form_type); <<>> when there is none
FoundForm(table, form, form_type) ==
  LET hits == {i \in 1..Len(table.keys) : lower(table.keys[i]) = lower(form)}
  IN  IF hits = {} THEN <<>>
      ELSE <<[term |-> table.keys[SetMin(hits)],
              count |-> table.count[SetMin(hits)],
              type |-> form_type]>>

\* found_forms of one configured equivalence group
FoundForms(terms, bigrams, equivalents) ==
  Flatten([f \in 1..Len(equivalents) |->
             IF Contains(equivalents[f], " ")
             THEN FoundForm(bigrams, equivalents[f], "bigram")
             ELSE FoundForm(terms, equivalents[f], "term")])

FormOccs(terms, bigrams, form) ==
  IF form.type = "bigram" THEN OccsOf(bigrams, form.term) ELSE OccsOf(terms, form.term)

\* found_forms[1:] of one configured group as attempts, most common first
EquivalentAttempts(terms, bigrams, found_forms) ==
  LET most_common == found_forms[1]
  IN  [k \in 1..(Len(found_forms) - 1) |->
         [key |-> PairKey(most_common.term, found_forms[k + 1].term),
          candidate |->
            Candidate(most_common.term, most_common.count,
                      FormOccs(terms, bigrams, most_common),
                      found_forms[k + 1].term, found_forms[k + 1].count,
                      FormOccs(terms, bigrams, found_forms[k + 1]),
                      "compound_variant", Some(most_common.term))]]

\* the loop over config.compound_equivalents
ConfiguredAttempts(terms, bigrams, groups) ==
  Flatten([g \in 1..Len(groups) |->
             LET found_forms == FoundForms(terms, bigrams, groups[g])
             IN  IF Len(found_forms) >= 2
                 THEN EquivalentAttempts(terms, bigrams,
                                         SortByCount(found_forms))
                 ELSE <<>>])

\* normalize_compound(term) == normalized and
\* term.lower() != bigram.lower().replace(' ', '')
CompoundMatch(bigram, term) ==
  /\ normalize_compound(term) = normalize_compound(bigram)
  /\ lower(term) # RemoveChar(lower(bigram), " ")

\* len(bigram_parts) == 2 and bigram_parts[0] + bigram_parts[1] == term.lower()
CompoundVerified(bigram, term) ==
  LET bigram_parts == Split(lower(bigram), 1)
  IN  /\ Len(bigram_parts) = 2
      /\ bigram_parts[1] \o bigram_parts[2] = lower(term)

MIN_COMPOUND_LEN == 6

\* the loop over bigram_counts.items() with its inner loop over
\* term_counts.items(): the (bigram, term) pairs that reach seen.add
DetectedAttempts(terms, bigrams) ==
  Flatten([b \in 1..Len(bigrams.keys) |->
    IF Len(normalize_compound(bigrams.keys[b])) < MIN_COMPOUND_LEN THEN <<>>
    ELSE Flatten([t \in 1..Len(terms.keys) |->
           IF /\ CompoundMatch(bigrams.keys[b], terms.keys[t])
              /\ CompoundVerified(bigrams.keys[b], terms.keys[t])
           THEN <<[key |-> PairKey(bigrams.keys[b], terms.keys[t]),
                   candidate |->
                     Candidate(bigrams.keys[b], bigrams.count[b],
                               OccsOf(bigrams, bigrams.keys[b]),
                               terms.keys[t], terms.count[t],
                               OccsOf(terms, terms.keys[t]),
                               "compound_variant",
                               Some(IF bigrams.count[b] > terms.count[t]
                                    THEN bigrams.keys[b] ELSE terms.keys[t]))]>>
           ELSE <<>>])])

\* both loops share the set seen; a pair reaches candidates.append exactly
\* when its key is not in seen yet
find_compound_variants(terms, bigrams, config) ==
  FirstPerKey(ConfiguredAttempts(terms, bigrams, config.compound_equivalents)
                \o DetectedAttempts(terms, bigrams))

MIN_LEVENSHTEIN_LEN == 4

\* variant: without the minimum length of the two terms
LevQualifies_any_length(table, ignore_terms, max_distance, i, j) ==
  LET term1 == table.keys[i]
      term2 == table.keys[j]
      distance == levenshtein_distance(lower(term1), lower(term2))
  IN  /\ NotIgnored(ignore_terms, term1)
      /\ NotIgnored(ignore_terms, term2)
      /\ lower(term1) # lower(term2)
      /\ Abs(Len(term1) - Len(term2)) <= max_distance
      /\ 0 < distance
      /\ distance <= max_distance

\* the conditions under which the pair of entries i < j reaches the test
\* of seen
LevQualifies(table, ignore_terms, max_distance, i, j) ==
  LET term1 == table.keys[i]
      term2 == table.keys[j]
      distance == levenshtein_distance(lower(term1), lower(term2))
  IN  /\ NotIgnored(ignore_terms, term1)
      /\ NotIgnored(ignore_terms, term2)
      /\ lower(term1) # lower(term2)
      /\ Abs(Len(term1) - Len(term2)) <= max_distance
      /\ Len(term1) >= MIN_LEVENSHTEIN_LEN
      /\ Len(term2) >= MIN_LEVENSHTEIN_LEN
      /\ 0 < distance
      /\ distance <= max_distance

LevAttempt(table, i, j) ==
  LET term1 == table.keys[i]
      term2 == table.keys[j]
  IN  [key |-> PairKey(term1, term2),
       candidate |->
         Candidate(term1, table.count[i], OccsOf(table, term1),
                   term2, table.count[j], OccsOf(table, term2),
                   "levenshtein_distance_"
                     \o ToString(levenshtein_distance(lower(term1), lower(term2))),
                   None)]

\* the loop over enumerate(terms) with its inner loop over terms[i+1:]
find_levenshtein_similar(table, ignore_terms, max_distance) ==
  LET n == Len(table.keys)
  IN  FirstPerKey(Flatten([i \in 1..n |->
        Flatten([d \in 1..(n - i) |->
          IF LevQualifies(table, ignore_terms, max_distance, i, i + d)
          THEN <<LevAttempt(table, i, i + d)>>
          ELSE <<>>])]))

(***************************************************************************)
(* Confidence scorer.                                                      *)
(***************************************************************************)
PARAGRAPH_LINES == 5

DISTANT_LINES == 100

SameSection(occ1, occ2) ==
  \E i \in 1..Len(occ1), j \in 1..Len(occ2) :
    /\ occ1[i].section = occ2[j].section
    /\ occ1[i].section \notin {NO_SECTION, ""}

\* variant: lines exactly 5 apart are not in one paragraph
SameParagraph_closer(occ1, occ2) ==
  \E i \in 1..Len(occ1), j \in 1..Len(occ2) :
    Abs(occ1[i].line_number - occ2[j].line_number) < PARAGRAPH_LINES

SameParagraph(occ1, occ2) ==
  \E i \in 1..Len(occ1), j \in 1..Len(occ2) :
    Abs(occ1[i].line_number - occ2[j].line_number) <= PARAGRAPH_LINES

MinDistance(occ1, occ2) ==
  SetMin({Abs(occ1[i].line_number - occ2[j].line_number) :
            i \in 1..Len(occ1), j \in 1..Len(occ2)})

\* ratio = max(count1, count2) / min(count1, count2) compared with a bound,
\* without division
RatioAbove(count1, count2, bound) ==
  Max2(count1, count2) > bound * Min2(count1, count2)

InCode(occs) == \E i \in 1..Len(occs) : Contains(occs[i].sentence, BT)

\* variant: the two frequency checks and the two code checks are
\* independent ifs
AppliedModifiers_independent(term1, term2, occ1, occ2, reason) ==
  (IF SameSection(occ1, occ2)
   THEN <<"same_section">>
          \o (IF SameParagraph(occ1, occ2) THEN <<"same_paragraph">> ELSE <<>>)
   ELSE <<>>)
  \o (IF MinDistance(occ1, occ2) > DISTANT_LINES THEN <<"distant_sections">> ELSE <<>>)
  \o (IF RatioAbove(Len(occ1), Len(occ2), 10) THEN <<"frequency_imbalance_high">>
      ELSE <<>>)
  \o (IF RatioAbove(Len(occ1), Len(occ2), 5) THEN <<"frequency_imbalance_moderate">>
      ELSE <<>>)
  \o (IF Contains(reason, "levenshtein") /\ (Len(term1) < 5 \/ Len(term2) < 5)
      THEN <<"short_term_levenshtein">> ELSE <<>>)
  \o (IF InCode(occ1) /\ InCode(occ2) THEN <<"both_terms_in_code">> ELSE <<>>)
  \o (IF InCode(occ1) \/ InCode(occ2) THEN <<"one_term_in_code">> ELSE <<>>)

\* the names in modifiers_applied, in the order the code appends them
AppliedModifiers(term1, term2, occ1, occ2, reason) ==
  (IF SameSection(occ1, occ2)
   THEN <<"same_section">>
          \o (IF SameParagraph(occ1, occ2) THEN <<"same_paragraph">> ELSE <<>>)
   ELSE <<>>)
  \o (IF MinDistance(occ1, occ2) > DISTANT_LINES THEN <<"distant_sections">> ELSE <<>>)
  \o (IF RatioAbove(Len(occ1), Len(occ2), 10) THEN <<"frequency_imbalance_high">>
      ELSE IF RatioAbove(Len(occ1), Len(occ2), 5) THEN <<"frequency_imbalance_moderate">>
      ELSE <<>>)
  \o (IF Contains(reason, "levenshtein") /\ (Len(term1) < 5 \/ Len(term2) < 5)
      THEN <<"short_term_levenshtein">> ELSE <<>>)
  \o (IF InCode(occ1) /\ InCode(occ2) THEN <<"both_terms_in_code">>
      ELSE IF InCode(occ1) \/ InCode(occ2) THEN <<"one_term_in_code">>
      ELSE <<>>)

\* variant: only the first applied modifier is counted
ModifierTotal_first(applied) ==
  IF applied = <<>> THEN 0 ELSE CONTEXT_MODIFIERS[applied[1]]

\* total_modifier of a list of applied names
ModifierTotal(applied) ==
  SeqSum([i \in 1..Len(applied) |-> CONTEXT_MODIFIERS[applied[i]]])

\* variant: without the early return; with an empty list the proximity and
\* frequency checks find nothing and the other checks go on
calculate_confidence_modifiers_no_skip(term1, term2, occ1, occ2, reason) ==
  LET applied ==
        IF occ1 = <<>> \/ occ2 = <<>>
        THEN (IF Contains(reason, "levenshtein") /\ (Len(term1) < 5 \/ Len(term2) < 5)
              THEN <<"short_term_levenshtein">> ELSE <<>>)
             \o (IF InCode(occ1) \/ InCode(occ2) THEN <<"one_term_in_code">> ELSE <<>>)
        ELSE AppliedModifiers(term1, term2, occ1, occ2, reason)
  IN  [total |-> ModifierTotal(applied), applied |-> applied]

calculate_confidence_modifiers(term1, term2, occ1, occ2, reason) ==
  IF occ1 = <<>> \/ occ2 = <<>>
  THEN [total |-> 0, applied |-> <<>>]
  ELSE LET applied == AppliedModifiers(term1, term2, occ1, occ2, reason)
       IN  [total |-> ModifierTotal(applied), applied |-> applied]

DEFAULT_CONFIDENCE == 50

\* the reason used for the table lookup
BaseReason(reason) ==
  IF StartsAt(reason, 1, "levenshtein_distance_")
  THEN IF Contains(reason, "1") THEN "levenshtein_distance_1"
       ELSE "levenshtein_distance_2"
  ELSE reason

\* variant: the sum of base and modifiers is returned as it is
Clamp_unbounded(adjusted) == adjusted

\* max(0.0, min(1.0, adjusted)), in hundredths
Clamp(adjusted) == Max2(0, Min2(100, adjusted))

get_adjusted_confidence(reason, modifier) ==
  LET base_reason == BaseReason(reason)
      base_confidence == IF base_reason \in DOMAIN CONFIDENCE_SCORES
                         THEN CONFIDENCE_SCORES[base_reason]
                         ELSE DEFAULT_CONFIDENCE
  IN  Clamp(base_confidence + modifier)

\* the body of the scoring loop of check_terminology for one candidate
Scored(c) ==
  LET m == calculate_confidence_modifiers(c.term1, c.term2, c.term1_occurrences,
                                          c.term2_occurrences, c.reason)
  IN  [c EXCEPT !.base_confidence = get_adjusted_confidence(c.reason, 0),
                !.adjusted_confidence = get_adjusted_confidence(c.reason, m.total),
                !.modifiers_applied = m.applied]

\* variant: the key is the pair as ordered in the candidate, not sorted
Deduplicate_ordered_key(candidates) ==
  FirstPerKey([i \in 1..Len(candidates) |->
                 [key |-> <<lower(candidates[i].term1), lower(candidates[i].term2)>>,
                  candidate |-> candidates[i]]])

\* the deduplication loop of check_terminology
Deduplicate(candidates) ==
  FirstPerKey([i \in 1..Len(candidates) |->
                 [key |-> PairKey(candidates[i].term1, candidates[i].term2),
                  candidate |-> candidates[i]]])

TotalCount(c) == c.term1_count + c.term2_count

\* the sort key (adjusted_confidence, term1_count + term2_count), compared
\* as Python compares tuples
SortKey(c) == <<c.adjusted_confidence, TotalCount(c)>>

RanksHigher(a, b) == TupleGreater(SortKey(a), SortKey(b))

\* variant: an ascending sort followed by reverse(), which turns the order
\* of equal keys around
Rank_sort_then_reverse(candidates) ==
  LET negated(c) == <<0 - c.adjusted_confidence, 0 - TotalCount(c)>>
      ascending ==
        StableSortDesc(candidates,
                       [i \in 1..Len(candidates) |-> negated(candidates[i])])
  IN  [p \in 1..Len(candidates) |-> ascending[Len(candidates) + 1 - p]]

Rank(candidates) ==
  StableSortDesc(candidates, [i \in 1..Len(candidates) |-> SortKey(candidates[i])])

(***************************************************************************)
(* check_terminology as a state machine.  pc is the position in the        *)
(* function body; the generators run in the order of the code.             *)
(***************************************************************************)
VARIABLES
  text,               \* the lines of the markdown file (f.read_text())
  config,             \* the TerminologyConfig returned by load_config
  max_distance,       \* the bound passed to find_levenshtein_similar
  pc,                 \* position in check_terminology
  run,                \* 1 for the first call, 2 for the repeated call
  term_table,         \* term_counts with term_occurrences
  bigram_table,       \* bigram_counts with bigram_occurrences
  all_candidates,     \* the list all_candidates
  emitted,            \* history: what each generator returned, by name
  unique_candidates,  \* the list unique_candidates
  before_sort,        \* history: unique_candidates as it was before the sort
  result,             \* the dict returned by check_terminology
  first_result,       \* history: the result of the first call
  call                \* a helper function called on its own: arguments, result

vars ==
  <<text, config, max_distance, pc, run, term_table, bigram_table,
    all_candidates, emitted, unique_candidates, before_sort, result,
    first_result, call>>

\* bounds of the model
MaxLines == 2

MaxTerms == 3

MaxDistance == 2

\* the default of the parameter max_distance of find_levenshtein_similar
DEFAULT_MAX_DISTANCE == 2

\* Counter.most_common(50)
TOP_TERMS == 50

\* the lines a document is made of
LineChoices ==
  {"# Setup",
   FENCE,
   "sub-agent subagent",
   "The Test test text tested",
   "file path filepath",
   "txt tests",
   "sub" \o BT \o "x" \o BT \o "agent " \o BT \o "subagent" \o BT}

Documents == UNION {[1..n -> LineChoices] : n \in 1..MaxLines}

DefaultConfig ==
  [domain_abbreviations |-> <<>>, compound_equivalents |-> <<>>, ignore_terms |-> <<>>]

Configs ==
  {DefaultConfig,
   [DefaultConfig EXCEPT !.ignore_terms = <<"text">>],
   [DefaultConfig EXCEPT !.compound_equivalents = <<<<"file path", "filepath">>>>]}

NoResult == [candidates_for_review |-> <<>>, total_unique_terms |-> 0,
             total_bigrams_extracted |-> 0, term_counts |-> <<>>]

\* all_content = f.read_text() + newline, then content.split(newline)
ContentLines(file_lines) == file_lines \o <<"">>

Init ==
  /\ text \in Documents
  /\ config \in Configs
  /\ max_distance = DEFAULT_MAX_DISTANCE
  /\ pc = "extract_terms"
  /\ run = 1
  /\ term_table = EmptyTable
  /\ bigram_table = EmptyTable
  /\ all_candidates = <<>>
  /\ emitted = <<>>
  /\ unique_candidates = <<>>
  /\ before_sort = <<>>
  /\ result = NoResult
  /\ first_result = NoResult
  /\ call = None

ExtractTerms ==
  /\ pc = "extract_terms"
  /\ term_table' = extract_terms_with_context(ContentLines(text))
  /\ pc' = "extract_bigrams"
  /\ UNCHANGED <<call, text, config, max_distance, run, bigram_table, all_candidates,
                 emitted, unique_candidates, before_sort, result, first_result>>

ExtractBigrams ==
  /\ pc = "extract_bigrams"
  /\ bigram_table' = extract_bigrams_with_context(ContentLines(text))
  /\ pc' = "case"
  /\ UNCHANGED <<call, text, config, max_distance, run, term_table, all_candidates,
                 emitted, unique_candidates, before_sort, result, first_result>>

\* all_candidates.extend(found) by the generator called at position here
Extend(here, next, found) ==
  /\ pc = here
  /\ all_candidates' = all_candidates \o found
  /\ emitted' = Append(emitted, [generator |-> here, candidates |-> found])
  /\ pc' = next
  /\ UNCHANGED <<call, text, config, max_distance, run, term_table, bigram_table,
                 unique_candidates, before_sort, result, first_result>>

FindCaseVariations ==
  Extend("case", "abbreviation",
         find_case_variations(term_table, config.ignore_terms))

FindAbbreviations ==
  Extend("abbreviation", "stem", find_abbreviations(term_table, config))

FindStemVariations ==
  \E hash_order \in BOOLEAN :
    Extend("stem", "hyphenation",
           find_stem_variations(term_table, config.ignore_terms, hash_order))

FindHyphenationVariants ==
  Extend("hyphenation", "compound",
         find_hyphenation_variants(term_table, config.ignore_terms))

FindCompoundVariants ==
  Extend("compound", "levenshtein",
         find_compound_variants(term_table, bigram_table, config))

FindLevenshteinSimilar ==
  Extend("levenshtein", "dedup",
         find_levenshtein_similar(term_table, config.ignore_terms, max_distance))

DeduplicateCandidates ==
  /\ pc = "dedup"
  /\ unique_candidates' = Deduplicate(all_candidates)
  /\ pc' = "score"
  /\ UNCHANGED <<call, text, config, max_distance, run, term_table, bigram_table,
                 all_candidates, emitted, before_sort, result, first_result>>

ScoreCandidates ==
  /\ pc = "score"
  /\ unique_candidates' =
       [i \in 1..Len(unique_candidates) |-> Scored(unique_candidates[i])]
  /\ pc' = "sort"
  /\ UNCHANGED <<call, text, config, max_distance, run, term_table, bigram_table,
                 all_candidates, emitted, before_sort, result, first_result>>

\* the sort and the construction of the returned dict
SortAndReturn ==
  /\ pc = "sort"
  /\ before_sort' = unique_candidates
  /\ unique_candidates' = Rank(unique_candidates)
  /\ result' =
       [candidates_for_review |-> Rank(unique_candidates),
        total_unique_terms |-> Len(term_table.keys),
        total_bigrams_extracted |-> Len(bigram_table.keys),
        term_counts |-> Prefix(SortByCount(Items(term_table)),
                               TOP_TERMS)]
  /\ pc' = "done"
  /\ UNCHANGED <<call, text, config, max_distance, run, term_table, bigram_table,
                 all_candidates, emitted, first_result>>

\* check_terminology is called again on the same file and config
CallAgain ==
  /\ pc = "done"
  /\ run = 1
  /\ run' = 2
  /\ first_result' = result
  /\ pc' = "extract_terms"
  /\ term_table' = EmptyTable
  /\ bigram_table' = EmptyTable
  /\ all_candidates' = <<>>
  /\ emitted' = <<>>
  /\ unique_candidates' = <<>>
  /\ before_sort' = <<>>
  /\ result' = NoResult
  /\ UNCHANGED <<call, text, config, max_distance>>

Next ==
  \/ ExtractTerms
  \/ ExtractBigrams
  \/ FindCaseVariations
  \/ FindAbbreviations
  \/ FindStemVariations
  \/ FindHyphenationVariants
  \/ FindCompoundVariants
  \/ FindLevenshteinSimilar
  \/ DeduplicateCandidates
  \/ ScoreCandidates
  \/ SortAndReturn
  \/ CallAgain

Spec == Init /\ [][Next]_vars

(***************************************************************************)
(* find_levenshtein_similar on its own: the term table, the ignore list    *)
(* and the bound are the inputs, as in the unit tests (empty occurrence    *)
(* lists, counts of 1).                                                    *)
(***************************************************************************)
TermChoices ==
  {"Test", "test", "text", "tests", "tested", "txt", "sub-agent", "subagent"}

\* the sequences without repetition of at most MaxTerms terms
KeySequences ==
  UNION {{q \in [1..n -> TermChoices] : \A i, j \in 1..n : i # j => q[i] # q[j]} :
           n \in 0..MaxTerms}

TableOf(keys) ==
  [keys |-> keys,
   count |-> [i \in 1..Len(keys) |-> 1],
   occs |-> [i \in 1..Len(keys) |-> <<>>]]

InitLev ==
  /\ text = <<>>
  /\ config \in {DefaultConfig, [DefaultConfig EXCEPT !.ignore_terms = <<"text">>]}
  /\ max_distance \in 1..MaxDistance
  /\ pc = "levenshtein"
  /\ run = 1
  /\ term_table \in {TableOf(q) : q \in KeySequences}
  /\ bigram_table = EmptyTable
  /\ all_candidates = <<>>
  /\ emitted = <<>>
  /\ unique_candidates = <<>>
  /\ before_sort = <<>>
  /\ result = NoResult
  /\ first_result = NoResult
  /\ call = None

NextLev == FindLevenshteinSimilar

SpecLev == InitLev /\ [][NextLev]_vars

(***************************************************************************)
(* The generators over the term table on their own: the term table and the *)
(* config are the inputs, as in the unit tests (empty occurrence lists).   *)
(* The terms of a table come from one family of related forms.             *)
(***************************************************************************)
\* the term tables of at most MaxTerms distinct terms of one family, each
\* term with a count of 2 or 3
FamilyTables ==
  LET families == {{"Python", "python", "PYTHON", "Text"},
                   {"config", "configuration", "Config", "cfg"},
                   {"test", "tests", "tested", "Tests"},
                   {"sub-agent", "subagent", "Sub-Agent", "subagents"}}
  IN  UNION {UNION {{[keys |-> q, count |-> c, occs |-> [i \in 1..n |-> <<>>]] :
                       q \in {k \in [1..n -> family] :
                                \A i, j \in 1..n : i # j => k[i] # k[j]},
                       c \in [1..n -> {2, 3}]} :
                    n \in 0..MaxTerms} :
               family \in families}

GeneratorConfigs ==
  {DefaultConfig,
   [DefaultConfig EXCEPT
      !.ignore_terms = <<"python", "tests", "subagent">>,
      !.domain_abbreviations = <<<<"config", "cfg">>, <<"cfg", "configuration">>>>]}

InitGen ==
  /\ text = <<>>
  /\ config \in GeneratorConfigs
  /\ max_distance = DEFAULT_MAX_DISTANCE
  /\ pc = "case"
  /\ run = 1
  /\ term_table \in FamilyTables
  /\ bigram_table = EmptyTable
  /\ all_candidates = <<>>
  /\ emitted = <<>>
  /\ unique_candidates = <<>>
  /\ before_sort = <<>>
  /\ result = NoResult
  /\ first_result = NoResult
  /\ call = None

NextGen ==
  \/ FindCaseVariations
  \/ FindAbbreviations
  \/ FindStemVariations
  \/ FindHyphenationVariants

SpecGen == InitGen /\ [][NextGen]_vars

(***************************************************************************)
(* The scoring loop of check_terminology on one deduplicated candidate,    *)
(* whose occurrence lists span more lines than the small documents above.  *)
(***************************************************************************)
MaxOccs == 2

\* the stored occurrence lists of a term: occurrences are recorded line by
\* line, so a list is in the order of its line numbers; line 1 and line 6
\* are in section Setup (line 6 next to an inline code span), line 7 is
\* under a heading without text, line 120 is in a later section Setup
OccurrenceLists(term) ==
  LET places == <<[line_number |-> 1, sentence |-> term, section |-> "Setup"],
                  [line_number |-> 6, sentence |-> BT \o "x" \o BT \o " " \o term,
                   section |-> "Setup"],
                  [line_number |-> 7, sentence |-> term, section |-> ""],
                  [line_number |-> 120, sentence |-> term, section |-> "Setup"]>>
  IN  UNION {{[i \in 1..n |-> places[q[i]]] :
                q \in {s \in [1..n -> 1..Len(places)] :
                         \A i \in 1..(n - 1) : s[i] <= s[i + 1]}} : n \in 0..MaxOccs}

\* (term1, term2, reason) of pairs the generators produce
ScorePairs ==
  {<<"Test", "test", "case_variation">>,
   <<"config", "configuration", "abbreviation">>,
   <<"tested", "testing", "stem_variation">>,
   <<"sub-agent", "subagent", "hyphenation_variant">>,
   <<"file path", "filepath", "compound_variant">>,
   <<"test", "text", "levenshtein_distance_1">>,
   <<"tests", "tested", "levenshtein_distance_2">>}

InitScore ==
  /\ text = <<>>
  /\ config = DefaultConfig
  /\ max_distance = DEFAULT_MAX_DISTANCE
  /\ pc = "score"
  /\ run = 1
  /\ term_table = EmptyTable
  /\ bigram_table = EmptyTable
  /\ all_candidates = <<>>
  /\ emitted = <<>>
  /\ unique_candidates \in
       UNION {{<<Candidate(p[1], 3, occ1, p[2], 2, occ2, p[3], None)>> :
                 occ1 \in OccurrenceLists(p[1]), occ2 \in OccurrenceLists(p[2])} :
                p \in ScorePairs}
  /\ before_sort = <<>>
  /\ result = NoResult
  /\ first_result = NoResult
  /\ call = None

SpecScore == InitScore /\ [][ScoreCandidates]_vars

(***************************************************************************)
(* The helper functions called on their own, as the tests of the           *)
(* repository call them.                                                   *)
(***************************************************************************)
MaxStemLen == 3

MaxStrLen == 3

RECURSIVE StringsOver(_, _)
\* the strings of at most n characters over an alphabet
StringsOver(alphabet, n) ==
  IF n = 0 THEN {""}
  ELSE LET shorter == StringsOver(alphabet, n - 1)
       IN  shorter \cup {s \o c : s \in shorter, c \in alphabet}

\* the calls made: simple_stem(word), levenshtein_distance(s1, s2),
\* get_adjusted_confidence(reason) with the default modifier 0.0, and
\* calculate_confidence_modifiers on occurrence lists of 1, 6 and 11
\* entries, which are not cut to 3 when the function is called directly
PureCalls ==
  LET words == {stem \o suffix :
                  stem \in StringsOver({"a", "n", "S"}, MaxStemLen),
                  suffix \in {"", "ing", "ied", "ies", "IES", "ed", "s", "ss"}}
      strings == StringsOver({"a", "b", "A"}, MaxStrLen)
      reasons == DOMAIN CONFIDENCE_SCORES
                   \cup {"levenshtein_distance_3", "levenshtein_distance_10",
                         "levenshtein_distance_12", "levenshtein_distance_21",
                         "levenshtein", "similar", ""}
      occurrences(term) ==
        {[k \in 1..n |-> [line_number |-> k, section |-> "Setup",
                          sentence |-> IF code THEN BT \o term \o BT ELSE term]] :
           n \in {1, 6, 11}, code \in BOOLEAN}
      pairs == {<<"test", "text", "levenshtein_distance_1">>,
                <<"Test", "test", "case_variation">>}
  IN  {[function |-> "simple_stem", args |-> <<word>>, returned |-> None] :
         word \in words}
        \cup {[function |-> "levenshtein_distance", args |-> <<s1, s2>>,
               returned |-> None] : s1 \in strings, s2 \in strings}
        \cup {[function |-> "get_adjusted_confidence", args |-> <<reason>>,
               returned |-> None] : reason \in reasons}
        \cup UNION {{[function |-> "calculate_confidence_modifiers",
                      args |-> <<p[1], p[2], occ1, occ2, p[3]>>, returned |-> None] :
                       occ1 \in occurrences(p[1]), occ2 \in occurrences(p[2])} :
                      p \in pairs}

InitPure ==
  /\ text = <<>>
  /\ config = DefaultConfig
  /\ max_distance = DEFAULT_MAX_DISTANCE
  /\ pc = "call"
  /\ run = 1
  /\ term_table = EmptyTable
  /\ bigram_table = EmptyTable
  /\ all_candidates = <<>>
  /\ emitted = <<>>
  /\ unique_candidates = <<>>
  /\ before_sort = <<>>
  /\ result = NoResult
  /\ first_result = NoResult
  /\ call \in PureCalls

CallSimpleStem ==
  /\ pc = "call"
  /\ call.function = "simple_stem"
  /\ call' = [call EXCEPT !.returned = Some(simple_stem(call.args[1]))]
  /\ pc' = "returned"
  /\ UNCHANGED <<text, config, max_distance, run, term_table, bigram_table,
                 all_candidates, emitted, unique_candidates, before_sort, result,
                 first_result>>

CallLevenshteinDistance ==
  /\ pc = "call"
  /\ call.function = "levenshtein_distance"
  /\ call' = [call EXCEPT
                !.returned = Some(levenshtein_distance(call.args[1], call.args[2]))]
  /\ pc' = "returned"
  /\ UNCHANGED <<text, config, max_distance, run, term_table, bigram_table,
                 all_candidates, emitted, unique_candidates, before_sort, result,
                 first_result>>

CallGetAdjustedConfidence ==
  /\ pc = "call"
  /\ call.function = "get_adjusted_confidence"
  /\ call' = [call EXCEPT
                !.returned = Some(get_adjusted_confidence(call.args[1], 0))]
  /\ pc' = "returned"
  /\ UNCHANGED <<text, config, max_distance, run, term_table, bigram_table,
                 all_candidates, emitted, unique_candidates, before_sort, result,
                 first_result>>

CallCalculateConfidenceModifiers ==
  /\ pc = "call"
  /\ call.function = "calculate_confidence_modifiers"
  /\ call' = [call EXCEPT
                !.returned = Some(calculate_confidence_modifiers(
                                    call.args[1], call.args[2], call.args[3],
                                    call.args[4], call.args[5]))]
  /\ pc' = "returned"
  /\ UNCHANGED <<text, config, max_distance, run, term_table, bigram_table,
                 all_candidates, emitted, unique_candidates, before_sort, result,
                 first_result>>

NextPure ==
  \/ CallSimpleStem
  \/ CallLevenshteinDistance
  \/ CallGetAdjustedConfidence
  \/ CallCalculateConfidenceModifiers

SpecPure == InitPure /\ [][NextPure]_vars

(***************************************************************************)
(* The two extractors on documents long enough to hold a closed code       *)
(* fence and two headings before a line of prose.                          *)
(***************************************************************************)
MaxDocLines == 4

InitExtract ==
  /\ text \in UNION {[1..n -> {FENCE, "# Setup", "## Usage", "Python Python python test"}] :
                       n \in 1..MaxDocLines}
  /\ config = DefaultConfig
  /\ max_distance = DEFAULT_MAX_DISTANCE
  /\ pc = "extract_terms"
  /\ run = 1
  /\ term_table = EmptyTable
  /\ bigram_table = EmptyTable
  /\ all_candidates = <<>>
  /\ emitted = <<>>
  /\ unique_candidates = <<>>
  /\ before_sort = <<>>
  /\ result = NoResult
  /\ first_result = NoResult
  /\ call = None

SpecExtract == InitExtract /\ [][ExtractTerms \/ ExtractBigrams]_vars

(***************************************************************************)
(* check_terminology on documents with one word written many times, with   *)
(* abbreviations whose expansion is a stopword, with an inline code span   *)
(* inside a word, and with a config that lists one form in two casings.    *)
(***************************************************************************)
InitSkill ==
  /\ text \in UNION {[1..n ->
                        {"db func function config configuration file path",
                         "Python Python Python Python Python Python Python Python"
                           \o " Python Python Python python",
                         "sub" \o BT \o "x" \o BT \o "agent"}] : n \in 1..MaxLines}
  /\ config \in {DefaultConfig,
                 [DefaultConfig EXCEPT
                    !.domain_abbreviations = <<<<"Config", "config">>>>,
                    !.compound_equivalents = <<<<"File Path", "file path">>>>]}
  /\ max_distance = DEFAULT_MAX_DISTANCE
  /\ pc = "extract_terms"
  /\ run = 1
  /\ term_table = EmptyTable
  /\ bigram_table = EmptyTable
  /\ all_candidates = <<>>
  /\ emitted = <<>>
  /\ unique_candidates = <<>>
  /\ before_sort = <<>>
  /\ result = NoResult
  /\ first_result = NoResult
  /\ call = None

SpecSkill == InitSkill /\ [][Next]_vars

(***************************************************************************)
(* Properties.                                                             *)
(***************************************************************************)
Ran(generator) == \E e \in 1..Len(emitted) : emitted[e].generator = generator

\* what the generator returned in this call (empty before it ran)
EmittedBy(generator) ==
  IF Ran(generator)
  THEN emitted[CHOOSE e \in 1..Len(emitted) : emitted[e].generator = generator].candidates
  ELSE <<>>

KeyOf(c) == PairKey(c.term1, c.term2)

Returned == pc = "done"

Reviewed == result.candidates_for_review

\* C1: in the returned result no two entries of candidates_for_review have
\* the same unordered, case-insensitive pair of terms.
C1_UniqueKeys ==
  Returned =>
    \A i, j \in 1..Len(Reviewed) : i # j => KeyOf(Reviewed[i]) # KeyOf(Reviewed[j])

\* a returned result built from generator output in which one key occurred
\* twice, with the two terms in opposite order
C1_Witness ==
  /\ Returned
  /\ Len(Reviewed) < Len(all_candidates)
  /\ \E i, j \in 1..Len(all_candidates) :
       /\ i # j
       /\ all_candidates[i].term1 = all_candidates[j].term2
       /\ all_candidates[i].term2 = all_candidates[j].term1

InUnitRange(x) == 0 <= x /\ x <= 100

RECURSIVE SumOf(_, _)
\* the sum of the modifiers named in names that have the given sign
SumOf(names, sign) ==
  IF names = {} THEN 0
  ELSE LET n == CHOOSE x \in names : TRUE
       IN  (IF CONTEXT_MODIFIERS[n] * sign > 0 THEN CONTEXT_MODIFIERS[n] ELSE 0)
             + SumOf(names \ {n}, sign)

\* every total a combination of modifiers can have lies in this range
ModifierTotals ==
  SumOf(DOMAIN CONTEXT_MODIFIERS, -1)..SumOf(DOMAIN CONTEXT_MODIFIERS, 1)

ReasonStrings ==
  DOMAIN CONFIDENCE_SCORES \cup {"levenshtein_distance_3", "unknown_reason", ""}

\* C2: every scored candidate has base_confidence and adjusted_confidence
\* between 0.0 and 1.0 (0 and 100 hundredths), and get_adjusted_confidence
\* is in that range for every reason string and every total of modifiers.
C2_ConfidenceBounds ==
  /\ pc = "score" =>
       \A reason \in ReasonStrings : \A modifier \in ModifierTotals :
         InUnitRange(get_adjusted_confidence(reason, modifier))
  /\ \A i \in 1..Len(unique_candidates) :
       /\ InUnitRange(unique_candidates[i].base_confidence)
       /\ InUnitRange(unique_candidates[i].adjusted_confidence)
  /\ \A i \in 1..Len(Reviewed) :
       /\ InUnitRange(Reviewed[i].base_confidence)
       /\ InUnitRange(Reviewed[i].adjusted_confidence)

\* a returned candidate whose base plus modifiers exceeds 1.0
C2_Witness ==
  /\ Returned
  /\ \E i \in 1..Len(Reviewed) :
       Reviewed[i].base_confidence + ModifierTotal(Reviewed[i].modifiers_applied) > 100

GeneratorOrder ==
  <<"case", "abbreviation", "stem", "hyphenation", "compound", "levenshtein">>

SameEntry(a, b) ==
  /\ a.term1 = b.term1
  /\ a.term2 = b.term2
  /\ a.reason = b.reason
  /\ a.suggestion = b.suggestion

EmitsKey(e, key) ==
  \E k \in 1..Len(emitted[e].candidates) : KeyOf(emitted[e].candidates[k]) = key

\* C3: the generators run in the order case, abbreviation, stem,
\* hyphenation, compound, levenshtein; every key some generator emitted is
\* in the result, and the result's entry for a key is an entry (reason,
\* suggestion, term order) of the earliest generator that emitted the key.
C3_FirstGeneratorWins ==
  Returned =>
    /\ Len(emitted) = Len(GeneratorOrder)
    /\ \A e \in 1..Len(emitted) : emitted[e].generator = GeneratorOrder[e]
    /\ \A e \in 1..Len(emitted) : \A k \in 1..Len(emitted[e].candidates) :
         \E i \in 1..Len(Reviewed) : KeyOf(Reviewed[i]) = KeyOf(emitted[e].candidates[k])
    /\ \A i \in 1..Len(Reviewed) :
         \E e \in 1..Len(emitted) :
           /\ \E k \in 1..Len(emitted[e].candidates) :
                SameEntry(Reviewed[i], emitted[e].candidates[k])
           /\ \A d \in 1..(e - 1) : ~EmitsKey(d, KeyOf(Reviewed[i]))

\* sub-agent / subagent was emitted by the hyphenation and by the
\* levenshtein generator and is returned as hyphenation_variant
C3_Witness ==
  /\ Returned
  /\ EmitsKey(4, {"sub-agent", "subagent"})
  /\ EmitsKey(6, {"sub-agent", "subagent"})
  /\ \E i \in 1..Len(Reviewed) :
       /\ KeyOf(Reviewed[i]) = {"sub-agent", "subagent"}
       /\ Reviewed[i].reason = "hyphenation_variant"

SameSortKey(a, b) ==
  /\ a.adjusted_confidence = b.adjusted_confidence
  /\ TotalCount(a) = TotalCount(b)

PositionIn(cands, c) == CHOOSE p \in 1..Len(cands) : cands[p] = c

\* C4: candidates_for_review is ordered by adjusted_confidence descending,
\* then by term1_count + term2_count descending, and candidates with equal
\* keys keep the order they had after deduplication.
C4_RankedAndStable ==
  Returned =>
    /\ \A i, j \in 1..Len(Reviewed) :
         i < j =>
           \/ Reviewed[i].adjusted_confidence > Reviewed[j].adjusted_confidence
           \/ /\ Reviewed[i].adjusted_confidence = Reviewed[j].adjusted_confidence
              /\ TotalCount(Reviewed[i]) >= TotalCount(Reviewed[j])
    /\ Len(Reviewed) = Len(before_sort)
    /\ \A i \in 1..Len(before_sort) :
         \E p \in 1..Len(Reviewed) : Reviewed[p] = before_sort[i]
    /\ \A i, j \in 1..Len(before_sort) :
         (i < j /\ SameSortKey(before_sort[i], before_sort[j])) =>
           PositionIn(Reviewed, before_sort[i]) < PositionIn(Reviewed, before_sort[j])

\* a returned result in which the sort moved a candidate forward and in
\* which two candidates have equal sort keys
C4_Witness ==
  /\ Returned
  /\ \E i, j \in 1..Len(before_sort) :
       i < j /\ RanksHigher(before_sort[j], before_sort[i])
  /\ \E i, j \in 1..Len(before_sort) :
       i < j /\ SameSortKey(before_sort[i], before_sort[j])

\* C5: a second call of check_terminology on the same text and config
\* returns the same result as the first, whatever order the sets of the
\* two processes iterate in.
C5_SameResultTwice ==
  (run = 2 /\ Returned) => result = first_result

\* the second call returned several candidates, one of them between two
\* terms of equal count
C5_Witness ==
  /\ run = 2
  /\ Returned
  /\ Len(Reviewed) >= 2
  /\ \E i \in 1..Len(Reviewed) : Reviewed[i].term1_count = Reviewed[i].term2_count
  /\ \E i \in 1..Len(Reviewed) : Reviewed[i].reason = "stem_variation"

\* the keys of term_counts.items() before most_common(50)
TermKeys == {term_table.keys[i] : i \in 1..Len(term_table.keys)}

\* line i of the file is a fence line or lies between an opening fence
\* line and the next fence line
InFencedBlock(lines, i) ==
  \/ IsFenceLine(lines[i])
  \/ Cardinality({k \in 1..(i - 1) : IsFenceLine(lines[k])}) % 2 = 1

RECURSIVE InlineSpans(_, _)
\* the inline code spans of a line from position i on, as pairs of the
\* positions of the opening and the closing backtick
InlineSpans(line, i) ==
  LET b == FirstIndex(line, i, "backtick")
  IN  IF b = 0 THEN {}
      ELSE LET j == FirstIndex(line, b + 1, "backtick")
           IN  IF j > b + 1
               THEN {<<b, j>>} \cup InlineSpans(line, j + 1)
               ELSE InlineSpans(line, b + 1)

\* the positions where term stands in line as a whole token
Appearances(line, term) ==
  {p \in 1..(Len(line) - Len(term) + 1) :
     /\ StartsAt(line, p, term)
     /\ p = 1 \/ ~IsTermChar(CharAt(line, p - 1))
     /\ p + Len(term) > Len(line) \/ ~IsTermChar(CharAt(line, p + Len(term)))}

InsideCode(lines, i, p, term) ==
  \/ InFencedBlock(lines, i)
  \/ \E span \in InlineSpans(lines[i], 1) :
       span[1] < p /\ p + Len(term) - 1 < span[2]

AppearsInCode(lines, term) ==
  \E i \in 1..Len(lines) : \E p \in Appearances(lines[i], term) :
    InsideCode(lines, i, p, term)

AppearsOutsideCode(lines, term) ==
  \E i \in 1..Len(lines) : \E p \in Appearances(lines[i], term) :
    ~InsideCode(lines, i, p, term)

OnlyInCode(lines, term) ==
  AppearsInCode(lines, term) /\ ~AppearsOutsideCode(lines, term)

\* C6: no term whose only appearances in the document are inside fenced
\* code blocks or inline code spans is a key of the term table.
C6_CodeExclusion ==
  \A term \in TermKeys : ~OnlyInCode(text, term)

\* C7: no key of the term table is, case-insensitively, a stopword, and no
\* key has length 2 or less; the same for term_counts of the result.
C7_StopwordExclusion ==
  /\ \A term \in TermKeys : lower(term) \notin STOPWORDS /\ Len(term) > 2
  /\ Returned =>
       \A i \in 1..Len(result.term_counts) :
         /\ lower(result.term_counts[i].term) \notin STOPWORDS
         /\ Len(result.term_counts[i].term) > 2

\* the terms of a document that has the capitalised stopword The as a
\* token have been extracted, and The is not among them
C7_Witness ==
  /\ pc = "extract_bigrams"
  /\ \E i \in 1..Len(text) : Appearances(text[i], "The") # {}
  /\ TermKeys # {}
  /\ "The" \notin TermKeys

Ignored(term) == InList(lower(term), config.ignore_terms)

\* C8: no candidate emitted by any generator, and none in the result, has
\* a term whose lowercase form is listed in config.ignore_terms.
C8_IgnoredTermsAbsent ==
  /\ \A e \in 1..Len(emitted) : \A k \in 1..Len(emitted[e].candidates) :
       /\ ~Ignored(emitted[e].candidates[k].term1)
       /\ ~Ignored(emitted[e].candidates[k].term2)
  /\ \A i \in 1..Len(Reviewed) :
       ~Ignored(Reviewed[i].term1) /\ ~Ignored(Reviewed[i].term2)

\* the bigram "A B" and the single word W with A + B = W, 6 characters or
\* more without the space
Concatenates(bigram, word) ==
  LET parts == Split(lower(bigram), 1)
  IN  /\ Len(parts) = 2
      /\ parts[1] \o parts[2] = lower(word)
      /\ Len(parts[1]) + Len(parts[2]) >= 6

\* C9: with no configured compound_equivalents, for every bigram "A B" of
\* the bigram table and term W of the term table with A + B = W (6 or more
\* characters), find_compound_variants emits a compound_variant pair for
\* ("A B", W) whose suggestion is the more frequent of the two.
C9_CompoundDetected ==
  (Ran("compound") /\ config.compound_equivalents = <<>>) =>
    \A b \in 1..Len(bigram_table.keys) : \A w \in 1..Len(term_table.keys) :
      Concatenates(bigram_table.keys[b], term_table.keys[w]) =>
        \E k \in 1..Len(EmittedBy("compound")) :
          LET c == EmittedBy("compound")[k]
          IN  /\ KeyOf(c) = PairKey(bigram_table.keys[b], term_table.keys[w])
              /\ c.reason = "compound_variant"
              /\ c.suggestion =
                   Some(IF bigram_table.count[b] >= term_table.count[w]
                        THEN bigram_table.keys[b] ELSE term_table.keys[w])

\* entries i and j of the term table are similar within max_distance
Similar(i, j) ==
  LET term1 == term_table.keys[i]
      term2 == term_table.keys[j]
      d == levenshtein_distance(lower(term1), lower(term2))
  IN  /\ ~Ignored(term1)
      /\ ~Ignored(term2)
      /\ Len(term1) >= 4
      /\ Len(term2) >= 4
      /\ lower(term1) # lower(term2)
      /\ 0 < d
      /\ d <= max_distance

\* C10: find_levenshtein_similar with bound max_distance emits a pair for
\* two entries of the term table exactly when neither is ignored, both
\* have 4 or more characters, their lowercase forms differ and their
\* distance d is in 1..max_distance; the reason is levenshtein_distance_d,
\* the suggestion is null, and no two emitted pairs have the same key.
C10_LevenshteinPairs ==
  Ran("levenshtein") =>
    LET out == EmittedBy("levenshtein")
        n == Len(term_table.keys)
    IN  /\ \A i, j \in 1..n :
             (i < j /\ Similar(i, j)) =>
               \E k \in 1..Len(out) :
                 KeyOf(out[k]) = PairKey(term_table.keys[i], term_table.keys[j])
        /\ \A k \in 1..Len(out) :
             \E i, j \in 1..n :
               /\ i < j
               /\ out[k].term1 = term_table.keys[i]
               /\ out[k].term2 = term_table.keys[j]
               /\ Similar(i, j)
               /\ out[k].reason =
                    "levenshtein_distance_"
                      \o ToString(levenshtein_distance(lower(out[k].term1),
                                                       lower(out[k].term2)))
               /\ out[k].suggestion = None
        /\ \A k, l \in 1..Len(out) : k # l => KeyOf(out[k]) # KeyOf(out[l])

\* the terms test and text with bound 1 gave exactly one pair, with reason
\* levenshtein_distance_1
C10_Witness ==
  /\ Ran("levenshtein")
  /\ max_distance = 1
  /\ term_table.keys = <<"test", "text">>
  /\ config.ignore_terms = <<>>
  /\ Len(EmittedBy("levenshtein")) = 1
  /\ EmittedBy("levenshtein")[1].reason = "levenshtein_distance_1"

\* the indices of the keys of the term table that are not ignored
Considered == {i \in 1..Len(term_table.keys) : ~Ignored(term_table.keys[i])}

CountOfTerm(term) ==
  term_table.count[CHOOSE i \in 1..Len(term_table.keys) : term_table.keys[i] = term]

\* the considered surface forms that have the lowercase form of key i
LowerGroup(i) ==
  {term_table.keys[j] :
     j \in {k \in Considered : lower(term_table.keys[k]) = lower(term_table.keys[i])}}

\* C11: for every group of k >= 2 non-ignored surface forms with one
\* lowercase form find_case_variations emits exactly k - 1 case_variation
\* pairs, each with term1 the most frequent form of the group, term2
\* another form of the group and suggestion term1; a group of one form
\* gives no pair, and every emitted pair belongs to such a group.
C11_CaseGroups ==
  Ran("case") =>
    LET out == EmittedBy("case")
    IN  /\ \A i \in Considered :
             LET group == LowerGroup(i)
                 pairs == {p \in 1..Len(out) : out[p].term1 \in group}
             IN  /\ Cardinality(pairs) = Cardinality(group) - 1
                 /\ \A p \in pairs :
                      /\ \A term \in group : CountOfTerm(out[p].term1) >= CountOfTerm(term)
                      /\ out[p].term2 \in group \ {out[p].term1}
                      /\ out[p].suggestion = Some(out[p].term1)
                      /\ out[p].reason = "case_variation"
                 /\ \A p, q \in pairs :
                      /\ out[p].term1 = out[q].term1
                      /\ p # q => out[p].term2 # out[q].term2
        /\ \A p \in 1..Len(out) :
             \E i \in Considered : out[p].term1 = term_table.keys[i]

\* the table {python: 2, Python: 3} gave exactly one pair Python / python
\* with suggestion Python
C11_Witness ==
  /\ Ran("case")
  /\ term_table.keys = <<"python", "Python">>
  /\ term_table.count = <<2, 3>>
  /\ Len(EmittedBy("case")) = 1
  /\ EmittedBy("case")[1].term1 = "Python"
  /\ EmittedBy("case")[1].term2 = "python"
  /\ EmittedBy("case")[1].suggestion = Some("Python")

\* the entries (abbrev, expansion) of the built-in dictionary merged with
\* the domain dictionary, whose entries replace built-in ones of the same
\* key
MergedEntries ==
  LET domain == config.domain_abbreviations
      domain_keys == {domain[i][1] : i \in 1..Len(domain)}
  IN  {domain[i] : i \in 1..Len(domain)}
        \cup {KNOWN_ABBREVIATIONS[i] :
                i \in {k \in 1..Len(KNOWN_ABBREVIATIONS) :
                         KNOWN_ABBREVIATIONS[k][1] \notin domain_keys}}

\* the entries whose two forms are keys of the term table, compared in
\* lowercase
PresentEntries ==
  LET lowers == {lower(term) : term \in TermKeys}
  IN  {e \in MergedEntries : lower(e[1]) \in lowers /\ lower(e[2]) \in lowers}

\* C12: for each entry (abbrev, expansion) of the merged dictionary whose
\* two forms are both in the term table (case-insensitively)
\* find_abbreviations emits exactly one abbreviation pair, of two terms of
\* the table; when the counts of the two terms differ the suggestion is
\* the term with the higher count; other entries give no pair.
C12_AbbreviationEntries ==
  pc = "stem" =>
    LET out == EmittedBy("abbreviation")
        matches(p, e) ==
          /\ lower(out[p].term1) = lower(e[1])
          /\ lower(out[p].term2) = lower(e[2])
    IN  /\ Len(out) = Cardinality(PresentEntries)
        /\ \A e \in PresentEntries : \E p \in 1..Len(out) : matches(p, e)
        /\ \A p \in 1..Len(out) :
             /\ \E e \in PresentEntries : matches(p, e)
             /\ out[p].reason = "abbreviation"
             /\ out[p].term1 \in TermKeys
             /\ out[p].term2 \in TermKeys
             /\ out[p].term1_count = CountOfTerm(out[p].term1)
             /\ out[p].term2_count = CountOfTerm(out[p].term2)
             /\ out[p].suggestion \in {Some(out[p].term1), Some(out[p].term2)}
             /\ out[p].term1_count > out[p].term2_count =>
                  out[p].suggestion = Some(out[p].term1)
             /\ out[p].term2_count > out[p].term1_count =>
                  out[p].suggestion = Some(out[p].term2)

\* the table {config: 3, configuration: 2} with the default config gave
\* exactly one pair, with suggestion config
C12_Witness ==
  /\ pc = "stem"
  /\ config = DefaultConfig
  /\ term_table.keys = <<"config", "configuration">>
  /\ term_table.count = <<3, 2>>
  /\ Len(EmittedBy("abbreviation")) = 1
  /\ EmittedBy("abbreviation")[1].suggestion = Some("config")

\* one lowercase form is the other plus "s"
PluralOf(a, b) == lower(a) = lower(b) \o "s"

StemOf(term) == simple_stem(lower(term))

\* C13: find_stem_variations never emits a pair in which the lowercase form
\* of one term is the lowercase form of the other plus "s"; a stem group
\* whose lowercase forms are just a word and its plural gives no pair;
\* every emitted pair has two non-ignored terms of the table with the same
\* simple_stem, term1 being a most frequent form of its stem group, and no
\* suggestion.
C13_StemPairs ==
  Ran("stem") =>
    LET out == EmittedBy("stem")
        keys == {term_table.keys[i] : i \in Considered}
    IN  /\ \A p \in 1..Len(out) :
             /\ ~PluralOf(out[p].term1, out[p].term2)
             /\ ~PluralOf(out[p].term2, out[p].term1)
             /\ out[p].term1 \in keys
             /\ out[p].term2 \in keys
             /\ out[p].term1 # out[p].term2
             /\ StemOf(out[p].term1) = StemOf(out[p].term2)
             /\ out[p].term1_count = CountOfTerm(out[p].term1)
             /\ \A term \in keys :
                  StemOf(term) = StemOf(out[p].term1) =>
                    CountOfTerm(term) <= out[p].term1_count
             /\ out[p].suggestion = None
             /\ out[p].reason = "stem_variation"
        /\ \A a, b \in keys :
             (/\ PluralOf(a, b)
              /\ \A term \in keys :
                   StemOf(term) = StemOf(a) => lower(term) \in {lower(a), lower(b)})
               => \A p \in 1..Len(out) : StemOf(out[p].term1) # StemOf(a)

\* the table {tests: 3, test: 2, tested: 2} gave the one pair
\* (tests, tested): the plural pair (tests, test) was left out
C13_Witness ==
  /\ Ran("stem")
  /\ term_table.keys = <<"tests", "test", "tested">>
  /\ term_table.count = <<3, 2, 2>>
  /\ Len(EmittedBy("stem")) = 1
  /\ EmittedBy("stem")[1].term1 = "tests"
  /\ EmittedBy("stem")[1].term2 = "tested"

\* the terms find_hyphenation_variants groups: not ignored, and either
\* holding a hyphen or longer than 6 characters
Hyphenable ==
  {term \in {term_table.keys[i] : i \in Considered} :
     Contains(term, "-") \/ Len(term) > 6}

\* C14: find_hyphenation_variants emits pairs only inside a group of
\* non-ignored terms, each with a hyphen or longer than 6 characters, that
\* share one stripped lowercase form, the group holding at least one
\* hyphenated and one non-hyphenated term; term1 and the suggestion are a
\* most frequent term of the group.
C14_HyphenationGroups ==
  Ran("hyphenation") =>
    LET out == EmittedBy("hyphenation")
    IN  \A p \in 1..Len(out) :
          LET group == {term \in Hyphenable :
                          normalize_compound(term) = normalize_compound(out[p].term1)}
          IN  /\ out[p].term1 \in group
              /\ out[p].term2 \in group
              /\ out[p].term1 # out[p].term2
              /\ \E term \in group : Contains(term, "-")
              /\ \E term \in group : ~Contains(term, "-")
              /\ out[p].term1_count = CountOfTerm(out[p].term1)
              /\ \A term \in group : CountOfTerm(term) <= out[p].term1_count
              /\ out[p].suggestion = Some(out[p].term1)
              /\ out[p].reason = "hyphenation_variant"

\* the table {sub-agent: 3, subagent: 2} gave exactly one pair, with
\* suggestion sub-agent
C14_Witness ==
  /\ Ran("hyphenation")
  /\ config = DefaultConfig
  /\ term_table.keys = <<"sub-agent", "subagent">>
  /\ term_table.count = <<3, 2>>
  /\ Len(EmittedBy("hyphenation")) = 1
  /\ EmittedBy("hyphenation")[1].term2 = "subagent"
  /\ EmittedBy("hyphenation")[1].suggestion = Some("sub-agent")

\* the candidates the scoring loop has gone through
ScoredCandidates == IF pc = "sort" THEN unique_candidates ELSE <<>>

\* C16: for every scored candidate adjusted_confidence is base_confidence
\* plus the sum of the CONTEXT_MODIFIERS weights of the names listed in its
\* modifiers_applied, clamped to [0.0, 1.0] (in hundredths, 0..100).
C16_AdjustedIsClampedSum ==
  \A i \in 1..Len(ScoredCandidates) :
    LET c == ScoredCandidates[i]
        names == c.modifiers_applied
        sum == c.base_confidence
                 + SeqSum([k \in 1..Len(names) |-> CONTEXT_MODIFIERS[names[k]]])
    IN  /\ \A k \in 1..Len(names) : names[k] \in DOMAIN CONTEXT_MODIFIERS
        /\ c.adjusted_confidence =
             (IF sum < 0 THEN 0 ELSE IF sum > 100 THEN 100 ELSE sum)

\* a hyphenation pair in one paragraph scored 0.88 + 0.05 + 0.10, clamped
\* to 1.0
C16_Witness ==
  /\ Len(ScoredCandidates) = 1
  /\ ScoredCandidates[1].reason = "hyphenation_variant"
  /\ ScoredCandidates[1].modifiers_applied = <<"same_section", "same_paragraph">>
  /\ ScoredCandidates[1].base_confidence = 88
  /\ ScoredCandidates[1].adjusted_confidence = 100

\* C17: a scored candidate one of whose terms has no stored occurrence has
\* an empty modifiers_applied and an adjusted_confidence equal to its
\* base_confidence, also when it is a levenshtein pair with a term shorter
\* than 5 characters; the scorer returns the total 0 and the empty list.
C17_NoOccurrencesNoModifiers ==
  \A i \in 1..Len(ScoredCandidates) :
    LET c == ScoredCandidates[i]
    IN  (c.term1_occurrences = <<>> \/ c.term2_occurrences = <<>>) =>
          /\ c.modifiers_applied = <<>>
          /\ c.adjusted_confidence = c.base_confidence
          /\ calculate_confidence_modifiers(c.term1, c.term2, c.term1_occurrences,
                                            c.term2_occurrences, c.reason)
               = [total |-> 0, applied |-> <<>>]

\* the levenshtein pair (test, text), test without stored occurrences and
\* text next to inline code, was scored 0.48 with no modifier
C17_Witness ==
  /\ Len(ScoredCandidates) = 1
  /\ ScoredCandidates[1].term1 = "test"
  /\ ScoredCandidates[1].reason = "levenshtein_distance_1"
  /\ ScoredCandidates[1].term1_occurrences = <<>>
  /\ InCode(ScoredCandidates[1].term2_occurrences)
  /\ ScoredCandidates[1].modifiers_applied = <<>>
  /\ ScoredCandidates[1].adjusted_confidence = 48

Applied(c, name) == \E k \in 1..Len(c.modifiers_applied) : c.modifiers_applied[k] = name

\* some stored occurrence line of term1 is within 5 lines of some stored
\* occurrence line of term2
NearLines(c) ==
  \E o1 \in {c.term1_occurrences[k] : k \in 1..Len(c.term1_occurrences)} :
    \E o2 \in {c.term2_occurrences[k] : k \in 1..Len(c.term2_occurrences)} :
      /\ o1.line_number - o2.line_number <= 5
      /\ o2.line_number - o1.line_number <= 5

\* C20: modifiers_applied holds same_paragraph only if it holds
\* same_section, and same_paragraph is there exactly when same_section is
\* and some stored occurrence line of term1 is within 5 lines of some
\* stored occurrence line of term2.
C20_ParagraphWithinSection ==
  \A i \in 1..Len(ScoredCandidates) :
    LET c == ScoredCandidates[i]
    IN  /\ Applied(c, "same_paragraph") => Applied(c, "same_section")
        /\ Applied(c, "same_paragraph") <=> (Applied(c, "same_section") /\ NearLines(c))

\* term1 on line 1 of section Setup and on line 7 under an empty heading,
\* term2 on line 7 and on line 120 of Setup: the section is shared by lines
\* 1 and 120, the near lines are 7 and 7, and both modifiers were applied
C20_Witness ==
  /\ Len(ScoredCandidates) = 1
  /\ Len(ScoredCandidates[1].term1_occurrences) = 2
  /\ Len(ScoredCandidates[1].term2_occurrences) = 2
  /\ ScoredCandidates[1].term1_occurrences[1].line_number = 1
  /\ ScoredCandidates[1].term1_occurrences[2].line_number = 7
  /\ ScoredCandidates[1].term2_occurrences[1].line_number = 7
  /\ ScoredCandidates[1].term2_occurrences[2].line_number = 120
  /\ Applied(ScoredCandidates[1], "same_section")
  /\ Applied(ScoredCandidates[1], "same_paragraph")

\* a call of the function has returned
ReturnedFrom(function) == pc = "returned" /\ call.function = function

\* the table value the claim gives to a reason string: the fixed value of
\* the five other reasons, 0.48 for levenshtein distance 1, 0.30 for every
\* levenshtein distance of 2 or more, 0.50 for anything else
ClaimedBase(reason) ==
  LET prefix == "levenshtein_distance_"
      distance == SubSeq(reason, Len(prefix) + 1, Len(reason))
      digits == {"0", "1", "2", "3", "4", "5", "6", "7", "8", "9"}
  IN  IF reason \in {"case_variation", "abbreviation", "stem_variation",
                     "hyphenation_variant", "compound_variant"}
      THEN CONFIDENCE_SCORES[reason]
      ELSE IF /\ StartsAt(reason, 1, prefix)
              /\ distance # ""
              /\ \A k \in 1..Len(distance) : CharAt(distance, k) \in digits
           THEN IF distance = "1" THEN 48
                ELSE IF distance = "0" THEN DEFAULT_CONFIDENCE
                ELSE 30
           ELSE DEFAULT_CONFIDENCE

\* C15: the base confidence get_adjusted_confidence(reason) depends only on
\* the reason: the fixed table value for the five non-levenshtein reasons,
\* 0.48 for levenshtein_distance_1, 0.30 for every levenshtein_distance_d
\* with d >= 2, and 0.50 for any other reason string.
C15_BaseByReason ==
  ReturnedFrom("get_adjusted_confidence") =>
    call.returned = Some(ClaimedBase(call.args[1]))

RECURSIVE EditDistance(_, _, _, _)
\* the classic edit distance of a[i..] and b[j..]: the least number of
\* single-character insertions, deletions and substitutions that turn one
\* into the other
EditDistance(a, i, b, j) ==
  IF i > Len(a) THEN Len(b) - j + 1
  ELSE IF j > Len(b) THEN Len(a) - i + 1
  ELSE IF CharAt(a, i) = CharAt(b, j) THEN EditDistance(a, i + 1, b, j + 1)
  ELSE 1 + Min2(EditDistance(a, i + 1, b, j + 1),
                Min2(EditDistance(a, i + 1, b, j), EditDistance(a, i, b, j + 1)))

\* C18: levenshtein_distance(s1, s2) is the classic edit distance of the
\* two strings; it is the same for (s2, s1), it is 0 exactly when the
\* strings are equal, it is the length of the other string when one is
\* empty, and letters that differ only in case count as different.
C18_EditDistance ==
  ReturnedFrom("levenshtein_distance") =>
    LET s1 == call.args[1]
        s2 == call.args[2]
        d == call.returned[1]
    IN  /\ d = EditDistance(s1, 1, s2, 1)
        /\ d = levenshtein_distance(s2, s1)
        /\ d = 0 <=> s1 = s2
        /\ s1 = "" => d = Len(s2)
        /\ s2 = "" => d = Len(s1)
        /\ (s1 # s2 /\ lower(s1) = lower(s2)) => d > 0

\* levenshtein_distance("aAb", "Aa") returned 2: the first a is deleted
\* and b is replaced by a
C18_Witness ==
  /\ ReturnedFrom("levenshtein_distance")
  /\ call.args = <<"aAb", "Aa">>
  /\ call.returned = Some(2)

\* the result r is the lowercase word w after at most one suffix rule: w
\* itself, w without -ing (and without the second of two equal final
\* letters), w with -ied or -ies replaced by y, w without -ed, or w without
\* its final s
OneSuffixRule(w, r) ==
  \/ r = w
  \/ EndsWith(w, "ing") /\ r \in {DropLast(w, 3), DropLast(w, 4)}
  \/ (EndsWith(w, "ied") \/ EndsWith(w, "ies")) /\ r = DropLast(w, 3) \o "y"
  \/ EndsWith(w, "ed") /\ r = DropLast(w, 2)
  \/ EndsWith(w, "s") /\ r = DropLast(w, 1)

\* C19 as stated: simple_stem lowercases its input and applies at most one
\* suffix rule; every word ending in ied or ies is returned with that
\* suffix replaced by y, and every word of at most 3 characters is returned
\* lowercased and otherwise unchanged.
C19_StemRulesAsStated ==
  ReturnedFrom("simple_stem") =>
    LET w == lower(call.args[1])
        r == call.returned[1]
    IN  /\ OneSuffixRule(w, r)
        /\ (EndsWith(w, "ied") \/ EndsWith(w, "ies")) => r = DropLast(w, 3) \o "y"
        /\ Len(w) <= 3 => r = w

\* C19 amended: simple_stem lowercases its input and applies at most one
\* suffix rule; every word of more than 4 characters ending in ied or ies
\* is returned with that suffix replaced by y, and every word of at most 3
\* characters is returned lowercased and otherwise unchanged.
C19_StemRules ==
  ReturnedFrom("simple_stem") =>
    LET w == lower(call.args[1])
        r == call.returned[1]
    IN  /\ OneSuffixRule(w, r)
        /\ ((EndsWith(w, "ied") \/ EndsWith(w, "ies")) /\ Len(w) > 4) =>
             r = DropLast(w, 3) \o "y"
        /\ Len(w) <= 3 => r = w

\* simple_stem("anIES") returned "any"
C19_Witness ==
  /\ ReturnedFrom("simple_stem")
  /\ call.args = <<"anIES">>
  /\ call.returned = Some("any")

\* a backtick appears in a stored snippet of the list
HasBacktick(occs) ==
  \E k \in 1..Len(occs) :
    \E p \in 1..Len(occs[k].sentence) : CharAt(occs[k].sentence, p) = BT

\* C21: in the list calculate_confidence_modifiers returns no modifier name
\* occurs twice; frequency_imbalance_high and frequency_imbalance_moderate
\* are never both there; one_term_in_code and both_terms_in_code are never
\* both there, both_terms_in_code being the one chosen when a backtick
\* appears in stored snippets of both terms.
C21_ModifiersOnce ==
  ReturnedFrom("calculate_confidence_modifiers") =>
    LET applied == call.returned[1].applied
        has(name) == \E k \in 1..Len(applied) : applied[k] = name
        occ1 == call.args[3]
        occ2 == call.args[4]
    IN  /\ \A j, k \in 1..Len(applied) : j # k => applied[j] # applied[k]
        /\ ~(has("frequency_imbalance_high") /\ has("frequency_imbalance_moderate"))
        /\ ~(has("one_term_in_code") /\ has("both_terms_in_code"))
        /\ has("both_terms_in_code") <=> (HasBacktick(occ1) /\ HasBacktick(occ2))
        /\ has("one_term_in_code") <=> (HasBacktick(occ1) # HasBacktick(occ2))

\* a call with 11 occurrences of one term and 1 of the other, all next to
\* inline code, returned frequency_imbalance_high and both_terms_in_code
C21_Witness ==
  /\ ReturnedFrom("calculate_confidence_modifiers")
  /\ Len(call.args[3]) = 11
  /\ Len(call.args[4]) = 1
  /\ HasBacktick(call.args[3])
  /\ HasBacktick(call.args[4])
  /\ call.returned[1].applied =
       <<"same_section", "same_paragraph", "frequency_imbalance_high",
         "short_term_levenshtein", "both_terms_in_code">>

\* the tables the extractors have built so far
TermsExtracted == pc # "extract_terms"

BigramsExtracted == pc \notin {"extract_terms", "extract_bigrams"}

\* the line numbers recorded for key i of a table
LinesOf(table, i) == {table.occs[i][k].line_number : k \in 1..Len(table.occs[i])}

\* line n of the document gave an occurrence to one of the two tables
Contributes(n) ==
  \/ \E i \in 1..Len(term_table.keys) : n \in LinesOf(term_table, i)
  \/ \E i \in 1..Len(bigram_table.keys) : n \in LinesOf(bigram_table, i)

\* the trimmed text of line n starts with three backticks
FenceAt(n) == StartsAt(strip(text[n]), 1, FENCE)

\* the number of fence lines above line n
FencesBefore(n) == Cardinality({k \in 1..(n - 1) : FenceAt(k)})

\* C22: a line gives terms or bigrams only if it is in the document, is
\* not a fence line and has an even number of fence lines above it (so
\* nothing after an opening fence that is never closed); the line number
\* recorded for a term or bigram is that of a line of the original text
\* that holds the term, or the two words of the bigram.
C22_FenceToggle ==
  /\ \A n \in 1..(Len(text) + 2) :
       Contributes(n) =>
         /\ n <= Len(text)
         /\ ~FenceAt(n)
         /\ FencesBefore(n) % 2 = 0
  /\ \A i \in 1..Len(term_table.keys) :
       \A n \in LinesOf(term_table, i) :
         n \in 1..Len(text) /\ Contains(text[n], term_table.keys[i])
  /\ \A i \in 1..Len(bigram_table.keys) :
       \A n \in LinesOf(bigram_table, i) :
         /\ n \in 1..Len(text)
         /\ \A w \in 1..Len(Split(bigram_table.keys[i], 1)) :
              Contains(text[n], Split(bigram_table.keys[i], 1)[w])

\* a closed fence around a heading-like line, then a line of prose: the
\* prose on line 4 gave its terms and its bigrams with line number 4, the
\* block gave nothing
C22_Witness ==
  /\ BigramsExtracted
  /\ text = <<FENCE, "# Setup", FENCE, "Python Python python test">>
  /\ term_table.keys = <<"Python", "python", "test">>
  /\ \A i \in 1..3 : LinesOf(term_table, i) = {4}
  /\ bigram_table.keys = <<"Python Python", "Python python", "python test">>
  /\ \A i \in 1..3 : LinesOf(bigram_table, i) = {4}

\* the surviving terms of line n of the document, in order
SurvivingTerms(n) == TermsOfLine(ProcessLines(ContentLines(text), 1, FALSE)[n])

\* C23: every key of the bigram table is two keys of the term table of the
\* same text joined by one space, the two being consecutive surviving
\* terms of one line.
C23_BigramsOfTerms ==
  BigramsExtracted =>
    \A i \in 1..Len(bigram_table.keys) :
      \E a, b \in TermKeys :
        /\ bigram_table.keys[i] = a \o " " \o b
        /\ \E n \in LinesOf(bigram_table, i) :
             \E k \in 1..(Len(SurvivingTerms(n)) - 1) :
               SurvivingTerms(n)[k] = a /\ SurvivingTerms(n)[k + 1] = b

\* the trimmed text of line n starts with the heading marker
HeadingAt(n) == StartsAt(strip(text[n]), 1, "#")

\* label is the text of the heading line without its leading markers and
\* the spaces after them
HeadingText(line, label) ==
  \E m \in 1..Len(line) :
    /\ \A j \in 1..m : CharAt(line, j) = "#"
    /\ \E t \in (m + 1)..(Len(line) + 1) :
         /\ \A j \in (m + 1)..(t - 1) : CharAt(line, j) = " "
         /\ label = SubSeq(line, t, Len(line))
         /\ t <= Len(line) => CharAt(line, t) \notin {"#", " "}

\* the section of an occurrence is that of the nearest heading line above
\* its line, or the sentinel when there is none
SectionIsNearestHeading(occurrence) ==
  LET above == {k \in 1..(occurrence.line_number - 1) : HeadingAt(k)}
  IN  IF above = {} THEN occurrence.section = "(no section)"
      ELSE \E h \in above :
             /\ \A k \in above : k <= h
             /\ HeadingText(strip(text[h]), occurrence.section)

\* C24: the section recorded for each term or bigram occurrence is the
\* text, without its leading # markers, of the nearest heading line above
\* the line of the occurrence, or "(no section)" when no heading line is
\* above it.  A heading line is here any line whose trimmed text starts
\* with #, as in get_current_section; C28 is about those inside a fence.
C24_NearestHeading ==
  /\ \A i \in 1..Len(term_table.keys) :
       \A k \in 1..Len(term_table.occs[i]) :
         SectionIsNearestHeading(term_table.occs[i][k])
  /\ \A i \in 1..Len(bigram_table.keys) :
       \A k \in 1..Len(bigram_table.occs[i]) :
         SectionIsNearestHeading(bigram_table.occs[i][k])

\* two headings then prose: the prose is in section Usage, the word Usage
\* of the second heading in section Setup, the word Setup in no section
C24_Witness ==
  /\ BigramsExtracted
  /\ text = <<"# Setup", "## Usage", "Python Python python test">>
  /\ term_table.keys = <<"Setup", "Usage", "Python", "python", "test">>
  /\ term_table.occs[1][1].section = NO_SECTION
  /\ term_table.occs[2][1].section = "Setup"
  /\ term_table.occs[3][1].section = "Usage"
  /\ bigram_table.occs[1][1].section = "Usage"

\* line n of the document is prose: not a fence line and not in a block
ProseAt(n) == ~FenceAt(n) /\ FencesBefore(n) % 2 = 0

\* the number of times word stands on line n between spaces
TimesOnLine(word, n) ==
  Cardinality({w \in 1..Len(Split(text[n], 1)) : Split(text[n], 1)[w] = word})

\* the words of the prose lines that are not stopwords and are longer than
\* 2 characters (the lines of these documents hold only words and #)
SurvivingWords ==
  {word \in UNION {{Split(text[n], 1)[w] : w \in 1..Len(Split(text[n], 1))} :
                     n \in {m \in 1..Len(text) : ProseAt(m)}} :
     /\ Len(word) > 2
     /\ lower(word) \notin STOPWORDS}

\* C25: after extraction the keys of the term table are the surviving
\* words with their casing (Python and python are two keys), each once;
\* the count of a key is the number of its recorded occurrences and the
\* number of times the token stands in the prose; the occurrences are in
\* document order and their line numbers lie between 1 and the number of
\* lines.
C25_CountsMatchOccurrences ==
  TermsExtracted =>
    /\ TermKeys = SurvivingWords
    /\ \A i, j \in 1..Len(term_table.keys) :
         i # j => term_table.keys[i] # term_table.keys[j]
    /\ \A i \in 1..Len(term_table.keys) :
         LET occs == term_table.occs[i]
         IN  /\ term_table.count[i] = Len(occs)
             /\ \A n \in 1..Len(text) :
                  Cardinality({k \in 1..Len(occs) : occs[k].line_number = n})
                    = (IF ProseAt(n) THEN TimesOnLine(term_table.keys[i], n) ELSE 0)
             /\ \A k \in 1..Len(occs) : occs[k].line_number \in 1..Len(text)
             /\ \A k \in 1..(Len(occs) - 1) :
                  occs[k].line_number <= occs[k + 1].line_number

\* two lines of prose before an opening fence and one after it: Python was
\* counted 4 times, on lines 1, 1, 2, 2, and python twice
C25_Witness ==
  /\ TermsExtracted
  /\ text = <<"Python Python python test", "Python Python python test", FENCE,
              "Python Python python test">>
  /\ term_table.keys = <<"Python", "python", "test">>
  /\ term_table.count = <<4, 2, 2>>
  /\ [k \in 1..4 |-> term_table.occs[1][k].line_number] = <<1, 1, 2, 2>>

\* every candidate that has been scored, in the list being built and in
\* the returned result
AllScored ==
  {ScoredCandidates[i] : i \in 1..Len(ScoredCandidates)}
    \cup {Reviewed[i] : i \in 1..Len(Reviewed)}

C27_TermsVerbatim ==
  TermsExtracted =>
    \A i \in 1..Len(term_table.keys) :
      \A n \in LinesOf(term_table, i) :
        /\ n \in 1..Len(text)
        /\ \E p \in 1..(Len(text[n]) - Len(term_table.keys[i]) + 1) :
             SubSeq(text[n], p, p + Len(term_table.keys[i]) - 1) = term_table.keys[i]

\* the section of an occurrence is that of the nearest heading line above
\* it that is outside the code fences, or the sentinel when there is none
SectionIsProseHeading(occurrence) ==
  LET above == {k \in 1..(occurrence.line_number - 1) : HeadingAt(k) /\ ProseAt(k)}
  IN  IF above = {} THEN occurrence.section = "(no section)"
      ELSE \E h \in above :
             /\ \A k \in above : k <= h
             /\ HeadingText(strip(text[h]), occurrence.section)

\* C28: the section recorded for an occurrence is never taken from a line
\* inside a fenced code block: only heading lines outside the fences
\* become section labels.
C28_SectionsFromProse ==
  /\ \A i \in 1..Len(term_table.keys) :
       \A k \in 1..Len(term_table.occs[i]) :
         SectionIsProseHeading(term_table.occs[i][k])
  /\ \A i \in 1..Len(bigram_table.keys) :
       \A k \in 1..Len(bigram_table.occs[i]) :
         SectionIsProseHeading(bigram_table.occs[i][k])

\* C29: no candidate of the final result pairs a term with itself: term1
\* and term2 are different strings, for every config, also one whose
\* compound_equivalents or domain_abbreviations list one form in two
\* casings.
C29_NoSelfPairs ==
  \A i \in 1..Len(Reviewed) : Reviewed[i].term1 # Reviewed[i].term2

\* the word is a stopword or has at most 2 characters
StopOrShort(word) == lower(word) \in STOPWORDS \/ Len(word) <= 2

\* the built-in entries with such an abbreviation or expansion
FilteredEntries ==
  {KNOWN_ABBREVIATIONS[i] :
     i \in {k \in 1..Len(KNOWN_ABBREVIATIONS) :
              StopOrShort(KNOWN_ABBREVIATIONS[k][1]) \/ StopOrShort(KNOWN_ABBREVIATIONS[k][2])}}

\* the candidate pairs the two forms of the entry
PairsEntry(c, e) == lower(c.term1) = lower(e[1]) /\ lower(c.term2) = lower(e[2])

\* C30: in the pipeline no key of the term table is a stopword or has at
\* most 2 characters, so no abbreviation pair is produced, kept or
\* returned for a built-in entry whose abbreviation or expansion is such a
\* word (func/function, db/database).
C30_NoFilteredAbbreviations ==
  /\ \A term \in TermKeys : ~StopOrShort(term)
  /\ \A c \in {all_candidates[i] : i \in 1..Len(all_candidates)}
                \cup {Reviewed[i] : i \in 1..Len(Reviewed)} :
       c.reason = "abbreviation" => \A e \in FilteredEntries : ~PairsEntry(c, e)

\* the line with db, func, function, config and configuration gave the
\* abbreviation pair (config, configuration) and no other: func/function
\* and db/database are built-in entries, func and function are stopwords
\* and db has 2 characters
C30_Witness ==
  /\ Returned
  /\ config = DefaultConfig
  /\ text = <<"db func function config configuration file path">>
  /\ <<"func", "function">> \in FilteredEntries
  /\ <<"db", "database">> \in FilteredEntries
  /\ "func" \notin TermKeys
  /\ "function" \notin TermKeys
  /\ "config" \in TermKeys
  /\ "db" \notin TermKeys
  /\ \E i \in 1..Len(Reviewed) :
       Reviewed[i].term1 = "config" /\ Reviewed[i].term2 = "configuration"
  /\ Cardinality({i \in 1..Len(Reviewed) : Reviewed[i].reason = "abbreviation"}) = 1

====
